---------------------------- MODULE Spec2Model ----------------------------
(***************************************************************************)
(* Model of the scoring engine of the GitHub portfolio analyzer            *)
(* (src/ai_scoring.py, class ScoringEngine).                               *)
(*                                                                         *)
(* Python values are modelled as follows.                                  *)
(*   - a dict is a function whose DOMAIN is the set of keys present;       *)
(*   - a list is a sequence;                                               *)
(*   - None is the value None below (the text fields description and       *)
(*     language hold either None or a string);                             *)
(*   - the evaluation of an expression that may raise yields an outcome:   *)
(*     Return(value) or Raise(exception);                                  *)
(*   - an int is an integer;                                               *)
(*   - a float is an exact rational <<n, d>> in lowest terms with d > 0.   *)
(*     Binary floating-point error (of the order of 1e-14 on these         *)
(*     magnitudes) is not modelled; round(x, 2) is taken on the exact      *)
(*     value, half-to-even on exact ties, where the float computation may  *)
(*     fall on either side of the tie.                                     *)
(***************************************************************************)
EXTENDS Integers, Sequences, FiniteSets, TLC

\* ------------------------------------------------------------------------
\* Bounds of the model
\* ------------------------------------------------------------------------

\* Longest repository sequence enumerated over the tier representatives.
MaxRepos == 3

\* Longest repository sequence enumerated over records with absent fields.
MaxSparseRepos == 2

\* ------------------------------------------------------------------------
\* Exact rational arithmetic (Python float arithmetic, see above)
\* ------------------------------------------------------------------------

Abs(a) == IF a < 0 THEN -a ELSE a

RECURSIVE GCD(_, _)
GCD(a, b) == IF b = 0 THEN a ELSE GCD(b, a % b)

\* The rational n/d in lowest terms, d > 0.
Rat(n, d) ==
    LET g == GCD(Abs(n), Abs(d))
        s == IF d < 0 THEN -1 ELSE 1
    IN  << (s * n) \div g, (s * d) \div g >>

FromInt(n) == << n, 1 >>

RAdd(x, y) == Rat(x[1] * y[2] + y[1] * x[2], x[2] * y[2])
RSub(x, y) == Rat(x[1] * y[2] - y[1] * x[2], x[2] * y[2])
RMul(x, y) == Rat(x[1] * y[1], x[2] * y[2])
RLe(x, y)  == x[1] * y[2] <= y[1] * x[2]
RLt(x, y)  == x[1] * y[2] < y[1] * x[2]
RAbs(x)    == << Abs(x[1]), x[2] >>
RMin(x, y) == IF RLe(x, y) THEN x ELSE y

Min(a, b) == IF a <= b THEN a ELSE b
Max(a, b) == IF a >= b THEN a ELSE b

Round2_Omitted(x) == x

\* round(x, 2): the nearest multiple of 1/100, ties to the even multiple.
Round2(x) ==
    LET q == (100 * x[1]) \div x[2]
        r == (100 * x[1]) % x[2]
        h == IF 2 * r < x[2] THEN q
             ELSE IF 2 * r > x[2] THEN q + 1
             ELSE IF q % 2 = 0 THEN q ELSE q + 1
    IN  Rat(h, 100)

\* ------------------------------------------------------------------------
\* Python values and operations
\* ------------------------------------------------------------------------

None == "<None>"

\* d.get(key, default)
Get(d, key, default) == IF key \in DOMAIN d THEN d[key] ELSE default

\* bool(v) for v a string or None
Truthy(v) == v # None /\ v # ""

\* Outcome of an evaluation: a value, or an exception that propagates.
Return(v) == [raised |-> FALSE, value |-> v]
Raise(e)  == [raised |-> TRUE, value |-> e]

\* a / b
TrueDiv(a, b) ==
    IF b = 0 THEN Raise("ZeroDivisionError") ELSE Return(Rat(a, b))

FloorDiv_Real(a, b) ==
    IF b = 0 THEN Raise("ZeroDivisionError") ELSE Return(Rat(a, b))

\* a // b
FloorDiv(a, b) ==
    IF b = 0 THEN Raise("ZeroDivisionError") ELSE Return(FromInt(a \div b))

\* ------------------------------------------------------------------------
\* ScoringEngine
\* ------------------------------------------------------------------------

\* ScoringEngine.WEIGHTS as written in the class body.
WeightsInit ==
    [documentation   |-> Rat(30, 100),
     technical_depth |-> Rat(40, 100),
     activity        |-> Rat(30, 100)]

\* --- _score_documentation ------------------------------------------------

ReadmePoints_Inclusive(readme_length) ==
    IF readme_length >= 1000 THEN 100
    ELSE IF readme_length >= 500 THEN 75
    ELSE IF readme_length >= 100 THEN 50
    ELSE 25

\* Points for README (the if/elif chain on readme_length).
ReadmePoints(readme_length) ==
    IF readme_length > 1000 THEN 100
    ELSE IF readme_length > 500 THEN 75
    ELSE IF readme_length > 100 THEN 50
    ELSE 25

\* One pass of the loop body: the value added to score for one repo.
DocRepoScore(repo) ==
    LET readme_length   == Get(repo, "readme_length", 0)
        has_description == Truthy(Get(repo, "description", None))
        count_score     == ReadmePoints(readme_length)
                           + (IF has_description THEN 10 ELSE 0)
    IN  Min(100, count_score)

\* The for loop: <<score, count>> after repos[i..].
RECURSIVE DocLoop(_, _, _, _)
DocLoop(repos, i, score, count) ==
    IF i > Len(repos) THEN << score, count >>
    ELSE DocLoop(repos, i + 1, score + DocRepoScore(repos[i]), count + 1)

_score_documentation(profile_data) ==
    LET acc   == DocLoop(Get(profile_data, "repositories", << >>), 1, 0, 0)
        score == acc[1]
        count == acc[2]
    IN  IF count > 0 THEN TrueDiv(score, count) ELSE Return(FromInt(0))

\* --- _score_technical_depth ----------------------------------------------

HasLanguage_Unguarded(repo) == TRUE

\* The guard of languages.add: `if repo.get("language")`.
HasLanguage(repo) == Truthy(Get(repo, "language", None))

\* The first loop: the set of languages, or KeyError from repo["language"].
RECURSIVE LanguageLoop(_, _, _)
LanguageLoop(repos, i, languages) ==
    IF i > Len(repos) THEN Return(languages)
    ELSE IF HasLanguage(repos[i])
         THEN IF "language" \in DOMAIN repos[i]
              THEN LanguageLoop(repos, i + 1, languages \cup {repos[i]["language"]})
              ELSE Raise("KeyError")
         ELSE LanguageLoop(repos, i + 1, languages)

LanguageScore_Uncapped(languages) == Cardinality(languages) * 20

\* language_score = min(100, len(languages) * 20)
LanguageScore(languages) == Min(100, Cardinality(languages) * 20)

StarPoints(stars) ==
    IF stars > 1000 THEN 30
    ELSE IF stars > 100 THEN 20
    ELSE IF stars > 10 THEN 10
    ELSE 5

ForkPoints_NotExclusive(forks) ==
    (IF forks > 100 THEN 20 ELSE 0) + (IF forks > 10 THEN 10 ELSE 0)

ForkPoints(forks) ==
    IF forks > 100 THEN 20
    ELSE IF forks > 10 THEN 10
    ELSE 0

RECURSIVE ComplexityLoop_Overwrites(_, _, _)
ComplexityLoop_Overwrites(repos, i, complexity_score) ==
    IF i > Len(repos) THEN complexity_score
    ELSE LET stars == Get(repos[i], "stars", 0)
             forks == Get(repos[i], "forks", 0)
         IN  ComplexityLoop_Overwrites(repos, i + 1,
                                       StarPoints(stars) + ForkPoints(forks))

\* The second loop: complexity_score accumulated over repos[i..].
RECURSIVE ComplexityLoop(_, _, _)
ComplexityLoop(repos, i, complexity_score) ==
    IF i > Len(repos) THEN complexity_score
    ELSE LET stars == Get(repos[i], "stars", 0)
             forks == Get(repos[i], "forks", 0)
         IN  ComplexityLoop(repos, i + 1,
                            complexity_score + StarPoints(stars) + ForkPoints(forks))

ComplexityDivisor_Unguarded(repos) == Len(repos)

\* max(1, len(repos))
ComplexityDivisor(repos) == Max(1, Len(repos))

\* complexity_score = min(100, complexity_score // max(1, len(repos)))
ComplexityScore(repos) ==
    LET q == FloorDiv(ComplexityLoop(repos, 1, 0), ComplexityDivisor(repos))
    IN  IF q.raised THEN q ELSE Return(RMin(FromInt(100), q.value))

\* language_score * 0.4 + complexity_score * 0.6
TechCombine(language_score, complexity_score) ==
    RAdd(RMul(FromInt(language_score), Rat(4, 10)),
         RMul(complexity_score, Rat(6, 10)))

_score_technical_depth(profile_data) ==
    LET repos      == Get(profile_data, "repositories", << >>)
        languages  == LanguageLoop(repos, 1, {})
        complexity == ComplexityScore(repos)
    IN  IF languages.raised THEN languages
        ELSE IF complexity.raised THEN complexity
        ELSE Return(TechCombine(LanguageScore(languages.value), complexity.value))

\* --- _score_activity -----------------------------------------------------

CommitBonus_Inclusive(total_commits) ==
    IF total_commits >= 1000 THEN 40
    ELSE IF total_commits >= 500 THEN 30
    ELSE IF total_commits >= 100 THEN 20
    ELSE 10

CommitBonus_NoFloor(total_commits) ==
    IF total_commits > 1000 THEN 40
    ELSE IF total_commits > 500 THEN 30
    ELSE IF total_commits > 100 THEN 20
    ELSE IF total_commits > 0 THEN 10
    ELSE 0

\* Commit frequency bonus (the if/elif chain on total_commits).
CommitBonus(total_commits) ==
    IF total_commits > 1000 THEN 40
    ELSE IF total_commits > 500 THEN 30
    ELSE IF total_commits > 100 THEN 20
    ELSE 10

ClampActivity_Unclamped(activity_score) == activity_score

\* return min(100, activity_score)
ClampActivity(activity_score) == RMin(FromInt(100), activity_score)

\* The empty dict {}.
EmptyDict == [k \in {} |-> 0]

_score_activity(profile_data) ==
    LET commit_activity == Get(profile_data, "commit_activity", EmptyDict)
        consistency     == Get(commit_activity, "consistency_score", FromInt(0))
        total_commits   == Get(commit_activity, "total_commits", 0)
        commit_bonus    == CommitBonus(total_commits)
        activity_score  == RAdd(RMul(consistency, Rat(7, 10)), FromInt(commit_bonus))
    IN  Return(ClampActivity(activity_score))

\* --- calculate_score -----------------------------------------------------

WeightedTotal_RoundedFirst(W, doc, tech, activity) ==
    RAdd(RAdd(RMul(Round2(doc), W["documentation"]),
              RMul(Round2(tech), W["technical_depth"])),
         RMul(Round2(activity), W["activity"]))

\* doc_score * W["documentation"] + tech_score * W["technical_depth"]
\*   + activity_score * W["activity"]
WeightedTotal(W, doc, tech, activity) ==
    RAdd(RAdd(RMul(doc, W["documentation"]),
              RMul(tech, W["technical_depth"])),
         RMul(activity, W["activity"]))

ScoreBreakdown_RawBreakdown(W, doc, tech, activity) ==
    [total_score           |-> Round2(WeightedTotal(W, doc, tech, activity)),
     documentation_score   |-> Round2(doc),
     technical_depth_score |-> Round2(tech),
     activity_score        |-> Round2(activity),
     score_breakdown |->
        [documentation   |-> [score |-> doc, weight |-> W["documentation"]],
         technical_depth |-> [score |-> tech, weight |-> W["technical_depth"]],
         activity        |-> [score |-> activity, weight |-> W["activity"]]]]

\* The dictionary built by the return statement.
ScoreBreakdown(W, doc, tech, activity) ==
    [total_score           |-> Round2(WeightedTotal(W, doc, tech, activity)),
     documentation_score   |-> Round2(doc),
     technical_depth_score |-> Round2(tech),
     activity_score        |-> Round2(activity),
     score_breakdown |->
        [documentation   |-> [score |-> Round2(doc),
                              weight |-> W["documentation"]],
         technical_depth |-> [score |-> Round2(tech),
                              weight |-> W["technical_depth"]],
         activity        |-> [score |-> Round2(activity),
                              weight |-> W["activity"]]]]

\* calculate_score run from call to return with nothing else running.
calculate_score(W, profile_data) ==
    LET doc_score      == _score_documentation(profile_data)
        tech_score     == _score_technical_depth(profile_data)
        activity_score == _score_activity(profile_data)
    IN  IF doc_score.raised THEN doc_score
        ELSE IF tech_score.raised THEN tech_score
        ELSE IF activity_score.raised THEN activity_score
        ELSE Return(ScoreBreakdown(W, doc_score.value, tech_score.value,
                                   activity_score.value))

\* ------------------------------------------------------------------------
\* Inputs: the profile_data structures the engine is invoked on
\* ------------------------------------------------------------------------

\* The restriction of the dict d to the keys in K.
Restrict(d, K) == [k \in K |-> d[k]]

\* The repository of the specification's worked example.
BaseRepo ==
    [description   |-> "A command line tool",
     readme_length |-> 1500,
     language      |-> "Go",
     stars         |-> 5000,
     forks         |-> 50]

BaseActivity == [consistency_score |-> Rat(50, 1), total_commits |-> 120]

Profile(repos, activity) ==
    [repositories |-> repos, commit_activity |-> activity]

\* Values on both sides of every threshold the code tests.
ReadmeValues  == {0, 100, 101, 500, 501, 1000, 1001}
StarValues    == {0, 10, 11, 100, 101, 1000, 1001}
ForkValues    == {0, 10, 11, 100, 101}
CommitValues  == {0, 100, 101, 500, 501, 1000, 1001}
DescriptionValues == {None, "", "A command line tool"}

\* One value per tier, for the sequences.
ReadmeTiers == {0, 101, 501, 1001}
StarTiers   == {0, 11, 101, 1001}
ForkTiers   == {0, 11, 101}

LanguageList == << "Go", "Python", "Rust", "C", "Java", "JavaScript" >>

\* consistency_score values: the producer's active_months / months * 100 for
\* histories of 12 and of 11 months, and two values outside its range [0, 100].
ConsistencyValues ==
    {Rat(0, 1), Rat(100, 12), Rat(400, 11), Rat(50, 1), Rat(1100, 12), Rat(100, 1)}
ConsistencyOutOfRange == {Rat(-25, 1), Rat(150, 1)}

DocRepo(readme_length, description) ==
    [BaseRepo EXCEPT !.readme_length = readme_length, !.description = description]
ComplexityRepo(stars, forks) ==
    [BaseRepo EXCEPT !.stars = stars, !.forks = forks]
LanguageRepo(language) ==
    [BaseRepo EXCEPT !.language = language]

\* Each family of inputs is a predicate on the argument pd.

\* (1) One repository, every threshold from both sides.
BoundaryInput(pd) ==
    \/ \E l \in ReadmeValues, d \in DescriptionValues :
          pd = Profile(<< DocRepo(l, d) >>, BaseActivity)
    \/ \E s \in StarValues, f \in ForkValues :
          pd = Profile(<< ComplexityRepo(s, f) >>, BaseActivity)

\* (2) Every sequence of at most MaxRepos repositories over the tiers.
DocTierRepos  == { DocRepo(l, d) : l \in ReadmeTiers,
                                   d \in {None, "A command line tool"} }
ComplexityTierRepos == { ComplexityRepo(s, f) : s \in StarTiers, f \in ForkTiers }
LanguageFewRepos == { LanguageRepo(l) : l \in {None, "", "Go", "Python"} }

SequenceInput(pd) ==
    \E k \in 0..MaxRepos :
        \/ \E repos \in [1..k -> DocTierRepos] : pd = Profile(repos, BaseActivity)
        \/ \E repos \in [1..k -> ComplexityTierRepos] : pd = Profile(repos, BaseActivity)
        \/ \E repos \in [1..k -> LanguageFewRepos] : pd = Profile(repos, BaseActivity)

\* (3) Every subset of the six languages, one repository each, followed by
\*     nothing, a repository without language, or a repeated language.
RECURSIVE PickLanguages(_, _)
PickLanguages(I, i) ==
    IF i > Len(LanguageList) THEN << >>
    ELSE IF i \in I
         THEN << LanguageRepo(LanguageList[i]) >> \o PickLanguages(I, i + 1)
         ELSE PickLanguages(I, i + 1)

LanguageExtras ==
    { << >>, << LanguageRepo(None) >>, << LanguageRepo("") >>,
      << LanguageRepo("Go") >> }

LanguageInput(pd) ==
    \E I \in SUBSET (1..Len(LanguageList)), extra \in LanguageExtras :
        pd = Profile(PickLanguages(I, 1) \o extra, BaseActivity)

\* (4) Every commit_activity record.
ActivityInput(pd) ==
    \E c \in ConsistencyValues \cup ConsistencyOutOfRange, t \in CommitValues :
        pd = Profile(<< BaseRepo >>, [consistency_score |-> c, total_commits |-> t])

\* (5) Absent keys: every subset of the fields of a repository, of the
\*     fields of commit_activity, and of the top-level keys.
SparseRepos == { Restrict(BaseRepo, K) : K \in SUBSET (DOMAIN BaseRepo) }
SparseActivities ==
    { Restrict(BaseActivity, K) : K \in SUBSET (DOMAIN BaseActivity) }

SparseInput(pd) ==
    \/ \E k \in 0..1 : \E repos \in [1..k -> SparseRepos] :
          \E a \in SparseActivities, K \in SUBSET {"repositories", "commit_activity"} :
              pd = Restrict(Profile(repos, a), K)
    \/ \E k \in 0..MaxSparseRepos : \E repos \in [1..k -> SparseRepos] :
          pd = Profile(repos, BaseActivity)

\* (6) Repositories and commit activity varied together.
MixedRepos ==
    { [description |-> None, readme_length |-> 0, language |-> None,
       stars |-> 0, forks |-> 0],
      [description |-> "A parser", readme_length |-> 150, language |-> "Python",
       stars |-> 50, forks |-> 20],
      [description |-> "", readme_length |-> 600, language |-> "Rust",
       stars |-> 500, forks |-> 0],
      [description |-> "A kernel", readme_length |-> 5000, language |-> "C",
       stars |-> 20000, forks |-> 3000],
      BaseRepo }
MixedActivities ==
    { [consistency_score |-> c, total_commits |-> t] :
        c \in {Rat(0, 1), Rat(100, 12), Rat(400, 11), Rat(100, 1)},
        t \in {0, 101, 1001} }

MixedInput(pd) ==
    \E k \in 0..MaxRepos : \E repos \in [1..k -> MixedRepos] :
        \E a \in MixedActivities : pd = Profile(repos, a)

\* (7) Every subset of the six languages, one repository each, every
\*     repository in the highest tier of stars and of forks.
TopRated(repos) ==
    [i \in 1..Len(repos) |-> [repos[i] EXCEPT !.stars = 1001, !.forks = 101]]

TopRatedInput(pd) ==
    \E I \in SUBSET (1..Len(LanguageList)) :
        pd = Profile(TopRated(PickLanguages(I, 1)), BaseActivity)

\* ------------------------------------------------------------------------
\* State
\* ------------------------------------------------------------------------

VARIABLES
    profile_data,    \* the argument of calculate_score
    WEIGHTS,         \* the class attribute ScoringEngine.WEIGHTS
    doc_score,       \* local of calculate_score
    tech_score,      \* local of calculate_score
    activity_score,  \* local of calculate_score
    scores,          \* the value returned by calculate_score
    pc               \* position in calculate_score

\* State of the other specifications of this module; the single invocation
\* above leaves it alone.
VARIABLES
    calls            \* concurrent invocations: caller -> frame of calculate_score

VARIABLES
    history,         \* the frame of DataExtractionLayer._analyze_commit_history
    parse            \* the frame of extract_username

VARIABLES
    request,         \* the frame of analyze_profile
    table,           \* the rows of profile_analyses
    insight,         \* the frame of AIInsightEngine.generate_insights
    board,           \* the frame of get_leaderboard
    sessions         \* the frames of the store_analysis calls, one per request

\* The frame of a function that is not being executed.
NotCalled == [pc |-> "idle"]

\* What lies outside the scoring engine.
\* The API server: a request and the database.
Server == << request, table, insight, board, sessions >>

\* No request has been made and no analysis is stored.
ServerIdle ==
    /\ request = NotCalled
    /\ table = {}
    /\ insight = NotCalled
    /\ board = NotCalled
    /\ sessions = << >>

OutsideScoring == << history, parse, Server >>

OtherFrames == << calls, OutsideScoring >>

vars == << profile_data, WEIGHTS, doc_score, tech_score, activity_score, scores, pc,
           calls, history, parse, request, table, insight, board, sessions >>

\* A local that is not yet bound.
Unbound == << >>

Init ==
    /\ \/ BoundaryInput(profile_data)
       \/ SequenceInput(profile_data)
       \/ LanguageInput(profile_data)
       \/ ActivityInput(profile_data)
       \/ SparseInput(profile_data)
       \/ MixedInput(profile_data)
       \/ TopRatedInput(profile_data)
    /\ WEIGHTS = WeightsInit
    /\ doc_score = Unbound
    /\ tech_score = Unbound
    /\ activity_score = Unbound
    /\ scores = Unbound
    /\ pc = "documentation"
    /\ calls = << >>
    /\ history = NotCalled
    /\ parse = NotCalled
    /\ ServerIdle

\* doc_score = self._score_documentation(profile_data)
ScoreDocumentation ==
    /\ pc = "documentation"
    /\ LET r == _score_documentation(profile_data)
       IN  IF r.raised
           THEN /\ pc' = "raised"
                /\ doc_score' = doc_score
           ELSE /\ pc' = "technical_depth"
                /\ doc_score' = r.value
    /\ UNCHANGED << profile_data, WEIGHTS, tech_score, activity_score, scores >>
    /\ UNCHANGED OtherFrames

ScoreTechnicalDepth_Retries ==
    /\ pc = "technical_depth"
    /\ LET r == _score_technical_depth(profile_data)
       IN  IF r.value = FromInt(0)
           THEN /\ pc' = "documentation"
                /\ tech_score' = tech_score
           ELSE /\ pc' = "activity"
                /\ tech_score' = r.value
    /\ UNCHANGED << profile_data, WEIGHTS, doc_score, activity_score, scores >>
    /\ UNCHANGED OtherFrames

\* tech_score = self._score_technical_depth(profile_data)
ScoreTechnicalDepth ==
    /\ pc = "technical_depth"
    /\ LET r == _score_technical_depth(profile_data)
       IN  IF r.raised
           THEN /\ pc' = "raised"
                /\ tech_score' = tech_score
           ELSE /\ pc' = "activity"
                /\ tech_score' = r.value
    /\ UNCHANGED << profile_data, WEIGHTS, doc_score, activity_score, scores >>
    /\ UNCHANGED OtherFrames

ScoreActivity_SetsDefault ==
    /\ pc = "activity"
    /\ activity_score' = _score_activity(profile_data).value
    /\ pc' = "return"
    /\ profile_data' =
          [k \in DOMAIN profile_data \cup {"commit_activity"} |->
              IF k \in DOMAIN profile_data THEN profile_data[k] ELSE EmptyDict]
    /\ UNCHANGED << WEIGHTS, doc_score, tech_score, scores >>
    /\ UNCHANGED OtherFrames

\* activity_score = self._score_activity(profile_data)
ScoreActivity ==
    /\ pc = "activity"
    /\ LET r == _score_activity(profile_data)
       IN  IF r.raised
           THEN /\ pc' = "raised"
                /\ activity_score' = activity_score
           ELSE /\ pc' = "return"
                /\ activity_score' = r.value
    /\ UNCHANGED << profile_data, WEIGHTS, doc_score, tech_score, scores >>
    /\ UNCHANGED OtherFrames

\* total_score = ...; return {...}
ReturnScores ==
    /\ pc = "return"
    /\ scores' = ScoreBreakdown(WEIGHTS, doc_score, tech_score, activity_score)
    /\ pc' = "done"
    /\ UNCHANGED << profile_data, WEIGHTS, doc_score, tech_score, activity_score >>
    /\ UNCHANGED OtherFrames

Next ==
    \/ ScoreDocumentation
    \/ ScoreTechnicalDepth
    \/ ScoreActivity
    \/ ReturnScores

Spec == Init /\ [][Next]_vars

\* The statements of calculate_score that have not yet been executed.
Running == pc \in {"documentation", "technical_depth", "activity", "return"}

\* The interpreter executes the statement a running call is at: the call is
\* synchronous, nothing in it waits, so its position does not stay put.
Execute ==
    /\ Running
    /\ pc' \in {"technical_depth", "activity", "return", "done", "raised"}
    /\ pc' # pc

SpecLive == Init /\ [][Next]_vars /\ WF_pc(Execute)

\* ------------------------------------------------------------------------
\* Properties
\* ------------------------------------------------------------------------

\* The repositories of the input (none when the key is absent).
Repositories ==
    IF "repositories" \in DOMAIN profile_data
    THEN profile_data["repositories"] ELSE << >>

\* The commit activity of the input (no field when the key is absent).
CommitActivity ==
    IF "commit_activity" \in DOMAIN profile_data
    THEN profile_data["commit_activity"] ELSE EmptyDict

\* A field of a record, or `otherwise` when the record does not have it.
FieldOr(rec, key, otherwise) ==
    IF key \in DOMAIN rec THEN rec[key] ELSE otherwise

InputConsistency  == FieldOr(CommitActivity, "consistency_score", FromInt(0))
InputTotalCommits == FieldOr(CommitActivity, "total_commits", 0)

\* Positions of calculate_score at which each local is bound.
DocBound      == pc \in {"technical_depth", "activity", "return", "done"}
TechBound     == pc \in {"activity", "return", "done"}
ActivityBound == pc \in {"return", "done"}

InScale(x) == RLe(FromInt(0), x) /\ RLe(x, FromInt(100))

\* The input satisfies the data model of the specification.
ValidProfile ==
    /\ \A i \in 1..Len(Repositories) :
          /\ FieldOr(Repositories[i], "readme_length", 0) >= 0
          /\ FieldOr(Repositories[i], "stars", 0) >= 0
          /\ FieldOr(Repositories[i], "forks", 0) >= 0
    /\ InScale(InputConsistency)
    /\ InputTotalCommits >= 0

\* C1: for every valid profile_data, each of the four scores returned by
\* calculate_score lies in [0, 100].
C1_ScoresInScale ==
    (pc = "done" /\ ValidProfile) =>
        /\ InScale(scores.total_score)
        /\ InScale(scores.documentation_score)
        /\ InScale(scores.technical_depth_score)
        /\ InScale(scores.activity_score)

\* A valid input whose activity sum exceeds 100 before the clamp, returned.
C1_Witness ==
    /\ pc = "done"
    /\ ValidProfile
    /\ InputConsistency = FromInt(100)
    /\ InputTotalCommits > 1000
    /\ scores.activity_score = FromInt(100)
    /\ scores.documentation_score = FromInt(100)

\* The input with every absent key and field filled in with the value the
\* specification says absence stands for.
FilledRepo(repo) ==
    [description   |-> FieldOr(repo, "description", None),
     readme_length |-> FieldOr(repo, "readme_length", 0),
     language      |-> FieldOr(repo, "language", None),
     stars         |-> FieldOr(repo, "stars", 0),
     forks         |-> FieldOr(repo, "forks", 0)]

FilledProfile ==
    [repositories    |-> [i \in 1..Len(Repositories) |-> FilledRepo(Repositories[i])],
     commit_activity |-> [consistency_score |-> InputConsistency,
                          total_commits     |-> InputTotalCommits]]

SomethingAbsent == FilledProfile # profile_data

\* What calculate_score returns on the filled-in input.
FilledScores ==
    ScoreBreakdown(WeightsInit,
                   _score_documentation(FilledProfile).value,
                   _score_technical_depth(FilledProfile).value,
                   _score_activity(FilledProfile).value)

ScoreFields ==
    {"total_score", "documentation_score", "technical_depth_score",
     "activity_score", "score_breakdown"}

\* C2: calculate_score never raises; on an input with absent keys or fields
\* it returns a complete ScoreBreakdown, the one it returns on the same input
\* with empty sequence / zero / None in place of what is absent.
C2_NeverRaises ==
    /\ pc # "raised"
    /\ pc = "done" => DOMAIN scores = ScoreFields
    /\ (pc = "done" /\ SomethingAbsent) => scores = FilledScores

\* A repository without any field and no commit_activity key, scored.
C2_Witness ==
    /\ pc = "done"
    /\ DOMAIN profile_data = {"repositories"}
    /\ \E i \in 1..Len(Repositories) : DOMAIN Repositories[i] = {}
    /\ SomethingAbsent
    /\ scores = FilledScores

\* The weighted sum of the unrounded sub-scores, with the weights of the
\* specification.
ExactTotal ==
    RAdd(RAdd(RMul(Rat(30, 100), doc_score), RMul(Rat(40, 100), tech_score)),
         RMul(Rat(30, 100), activity_score))

\* x is a multiple of 1/100 at distance at most 1/200 from y.
RoundingOf(x, y) ==
    /\ 100 % x[2] = 0
    /\ RLe(RAbs(RSub(x, y)), Rat(1, 200))

\* C3: total_score is the weighted sum of the unrounded sub-scores rounded
\* once, and each reported sub-score is its unrounded value rounded once.
C3_TotalFromUnrounded ==
    pc = "done" =>
        /\ RoundingOf(scores.total_score, ExactTotal)
        /\ RoundingOf(scores.documentation_score, doc_score)
        /\ RoundingOf(scores.technical_depth_score, tech_score)
        /\ RoundingOf(scores.activity_score, activity_score)

\* A result in which the total and two sub-scores were changed by rounding.
C3_Witness ==
    /\ pc = "done"
    /\ scores.total_score # ExactTotal
    /\ scores.documentation_score # doc_score
    /\ scores.activity_score # activity_score

\* The per-repository documentation value as the specification states it.
DocBase(readme_length) ==
    CASE readme_length > 1000 -> 100
      [] readme_length > 500 /\ readme_length <= 1000 -> 75
      [] readme_length > 100 /\ readme_length <= 500 -> 50
      [] readme_length <= 100 -> 25

DocBonus(repo) ==
    IF "description" \in DOMAIN repo /\ repo["description"] \notin {None, ""}
    THEN 10 ELSE 0

DocValue(repo) ==
    LET v == DocBase(FieldOr(repo, "readme_length", 0)) + DocBonus(repo)
    IN  IF v > 100 THEN 100 ELSE v

RECURSIVE SumOver(_, _)
SumOver(f, n) == IF n = 0 THEN 0 ELSE f[n] + SumOver(f, n - 1)

DocValues == [i \in 1..Len(Repositories) |-> DocValue(Repositories[i])]

\* C4: for a non-empty repository sequence the documentation score is the
\* mean of the per-repository values min(100, base + bonus), each of which
\* is one of 25, 35, 50, 60, 75, 85, 100.
C4_DocumentationMean ==
    (DocBound /\ Len(Repositories) > 0) =>
        /\ doc_score[1] * Len(Repositories)
             = SumOver(DocValues, Len(Repositories)) * doc_score[2]
        /\ \A i \in 1..Len(Repositories) :
              DocValues[i] \in {25, 35, 50, 60, 75, 85, 100}

\* Three repositories in different tiers, the mean not an integer.
C4_Witness ==
    /\ DocBound
    /\ Len(Repositories) = 3
    /\ Cardinality({DocValues[i] : i \in 1..3}) = 3
    /\ doc_score[2] = 3

\* The star and fork contributions as the specification states them.
StarContribution(stars) ==
    CASE stars > 1000 -> 30
      [] stars > 100 /\ stars <= 1000 -> 20
      [] stars > 10 /\ stars <= 100 -> 10
      [] stars <= 10 -> 5

ForkContribution(forks) ==
    CASE forks > 100 -> 20
      [] forks > 10 /\ forks <= 100 -> 10
      [] forks <= 10 -> 0

Contributions ==
    [i \in 1..Len(Repositories) |->
        StarContribution(FieldOr(Repositories[i], "stars", 0))
        + ForkContribution(FieldOr(Repositories[i], "forks", 0))]

\* floor(S / max(1, n)), capped at 100.
ExpectedComplexity ==
    LET n == Len(Repositories)
        S == SumOver(Contributions, n)
        q == S \div (IF n >= 1 THEN n ELSE 1)
    IN  IF q > 100 THEN 100 ELSE q

\* The distinct non-empty language values of the input.
DistinctLanguages ==
    { Repositories[i]["language"] :
        i \in { j \in 1..Len(Repositories) :
                  /\ "language" \in DOMAIN Repositories[j]
                  /\ Repositories[j]["language"] \notin {None, ""} } }

ExpectedLanguageScore ==
    LET k == Cardinality(DistinctLanguages)
    IN  IF 20 * k > 100 THEN 100 ELSE 20 * k

\* C5: with zero repositories (empty or absent sequence) documentation_score
\* and technical_depth_score are 0, both components of the latter are 0, and
\* no division by zero is raised.
C5_NoRepositories ==
    Len(Repositories) = 0 =>
        /\ pc # "raised"
        /\ DocBound => doc_score = FromInt(0)
        /\ TechBound =>
              /\ tech_score = FromInt(0)
              /\ LanguageLoop(Repositories, 1, {}) = Return({})
              /\ ComplexityScore(Repositories) = Return(FromInt(0))
        /\ pc = "done" =>
              /\ scores.documentation_score = FromInt(0)
              /\ scores.technical_depth_score = FromInt(0)

\* Both kinds of zero repositories, scored.
C5_Witness ==
    /\ pc = "done"
    /\ "repositories" \notin DOMAIN profile_data
    /\ scores.technical_depth_score = FromInt(0)
    /\ scores.documentation_score = FromInt(0)

\* C6: the technical-depth score is 0.4 * language_score + 0.6 *
\* complexity_score, the latter being min(100, floor(S / max(1, n))) for S
\* the sum of the star and fork contributions of the n repositories.
C6_TechnicalDepth ==
    TechBound =>
        tech_score = Rat(4 * ExpectedLanguageScore + 6 * ExpectedComplexity, 10)

\* Several repositories whose contributions do not divide evenly.
C6_Witness ==
    /\ TechBound
    /\ Len(Repositories) >= 2
    /\ SumOver(Contributions, Len(Repositories)) % Len(Repositories) # 0
    /\ tech_score = Rat(4 * ExpectedLanguageScore + 6 * ExpectedComplexity, 10)

\* C7: language_score is min(100, 20 * k) for k the number of distinct
\* non-empty language values, hence 100 whenever k >= 5.
C7_LanguageScore ==
    TechBound =>
        LET languages == LanguageLoop(Repositories, 1, {})
        IN  /\ ~languages.raised
            /\ languages.value = DistinctLanguages
            /\ LanguageScore(languages.value) = ExpectedLanguageScore
            /\ Cardinality(DistinctLanguages) >= 5
                  => LanguageScore(languages.value) = 100

\* Six distinct languages and a repository without one.
C7_Witness ==
    /\ TechBound
    /\ Cardinality(DistinctLanguages) = 6
    /\ Len(Repositories) = 7
    /\ \E i \in 1..Len(Repositories) : Repositories[i]["language"] = None
    /\ LanguageScore(LanguageLoop(Repositories, 1, {}).value) = 100

\* The commit-volume bonus as the specification states it.
ExpectedCommitBonus ==
    CASE InputTotalCommits > 1000 -> 40
      [] InputTotalCommits > 500 /\ InputTotalCommits <= 1000 -> 30
      [] InputTotalCommits > 100 /\ InputTotalCommits <= 500 -> 20
      [] InputTotalCommits <= 100 -> 10

ExpectedActivity ==
    LET a == RAdd(RMul(InputConsistency, Rat(7, 10)), FromInt(ExpectedCommitBonus))
    IN  IF RLt(FromInt(100), a) THEN FromInt(100) ELSE a

\* C8: the activity score is min(100, consistency_score * 0.7 + commit_bonus)
\* with the bonus 40 / 30 / 20 / 10 by strict thresholds 1000 / 500 / 100.
C8_Activity ==
    ActivityBound => activity_score = ExpectedActivity

\* Exactly 1000 commits: the 30-point tier, below the clamp.
C8_Witness ==
    /\ ActivityBound
    /\ InputTotalCommits = 1000
    /\ InputConsistency = FromInt(50)
    /\ activity_score = FromInt(65)

\* commit_activity is absent, empty, or has both values zero.
NoActivity ==
    \/ "commit_activity" \notin DOMAIN profile_data
    \/ DOMAIN CommitActivity = {}
    \/ /\ DOMAIN CommitActivity = {"consistency_score", "total_commits"}
       /\ CommitActivity["consistency_score"] = FromInt(0)
       /\ CommitActivity["total_commits"] = 0

\* C9: with commit_activity absent, empty or zero, activity_score is
\* exactly 10.
C9_NoActivityScoresTen ==
    NoActivity =>
        /\ ActivityBound => activity_score = FromInt(10)
        /\ pc = "done" => scores.activity_score = FromInt(10)

\* An input without the commit_activity key, scored.
C9_Witness ==
    /\ pc = "done"
    /\ "commit_activity" \notin DOMAIN profile_data
    /\ scores.activity_score = FromInt(10)

\* C10: for every input with consistency_score >= 0, activity_score is at
\* least 10.
C10_ActivityFloor ==
    RLe(FromInt(0), InputConsistency) =>
        /\ ActivityBound => RLe(FromInt(10), activity_score)
        /\ pc = "done" => RLe(FromInt(10), scores.activity_score)

\* Zero consistency and zero commits recorded, scored at the floor.
C10_Witness ==
    /\ pc = "done"
    /\ "commit_activity" \in DOMAIN profile_data
    /\ InputConsistency = FromInt(0)
    /\ InputTotalCommits = 0
    /\ scores.activity_score = FromInt(10)

\* x has at most two decimal places.
TwoDecimals(x) == 100 % x[2] = 0

\* C12: the four top-level score fields of the output are rounded to two
\* decimal places, whatever the precision of the input.
C12_TwoDecimalPlaces ==
    pc = "done" =>
        /\ TwoDecimals(scores.total_score)
        /\ TwoDecimals(scores.documentation_score)
        /\ TwoDecimals(scores.technical_depth_score)
        /\ TwoDecimals(scores.activity_score)

\* An output whose unrounded documentation, activity and total values all
\* have more than two decimal places.
C12_Witness ==
    /\ pc = "done"
    /\ ~TwoDecimals(doc_score)
    /\ ~TwoDecimals(activity_score)
    /\ ~TwoDecimals(ExactTotal)
    /\ TwoDecimals(scores.total_score)

\* C13: score_breakdown maps documentation, technical_depth and activity to
\* {score, weight}, the score being the top-level rounded sub-score and the
\* weights 0.30, 0.40 and 0.30.
C13_Breakdown ==
    pc = "done" =>
        LET b == scores.score_breakdown
        IN  /\ DOMAIN b = {"documentation", "technical_depth", "activity"}
            /\ \A k \in DOMAIN b : DOMAIN b[k] = {"score", "weight"}
            /\ b["documentation"]["score"] = scores.documentation_score
            /\ b["technical_depth"]["score"] = scores.technical_depth_score
            /\ b["activity"]["score"] = scores.activity_score
            /\ b["documentation"]["weight"] = Rat(30, 100)
            /\ b["technical_depth"]["weight"] = Rat(40, 100)
            /\ b["activity"]["weight"] = Rat(30, 100)

\* An output in which rounding changed two of the echoed sub-scores.
C13_Witness ==
    /\ pc = "done"
    /\ scores.score_breakdown["documentation"]["score"] # doc_score
    /\ scores.score_breakdown["activity"]["score"] # activity_score
    /\ scores.score_breakdown["technical_depth"]["score"] = tech_score

\* C15: calculate_score has no side effects: no step changes its argument
\* profile_data (the repositories sequence, the repository records,
\* commit_activity) or the state of the engine.
C15_NoSideEffects ==
    [][profile_data' = profile_data /\ WEIGHTS' = WEIGHTS]_vars

\* An invocation on an argument without any key has returned.
C15_Witness ==
    /\ pc = "done"
    /\ DOMAIN profile_data = {}
    /\ WEIGHTS = WeightsInit
    /\ DOMAIN scores = ScoreFields

\* The exchanges of two positions of 1..n, as functions.
Transpositions(n) ==
    { [k \in 1..n |-> IF k = i THEN j ELSE IF k = j THEN i ELSE k] :
        i \in 1..n, j \in 1..n }

\* The rearrangements tried on a sequence of n repositories: all of them up
\* to MaxRepos + 1 repositories, the exchanges of two repositories beyond.
Rearrangements(n) ==
    IF n <= MaxRepos + 1 THEN Permutations(1..n) ELSE Transpositions(n)

\* The input with its repositories rearranged by p.
Rearranged(p) ==
    [k \in DOMAIN profile_data |->
        IF k = "repositories"
        THEN [i \in 1..Len(Repositories) |-> Repositories[p[i]]]
        ELSE profile_data[k]]

\* C17: the order of the repositories is not significant: calculate_score
\* returns the same scores for every permutation of the same repositories.
C17_OrderInsignificant ==
    pc = "done" =>
        \A p \in Rearrangements(Len(Repositories)) :
            calculate_score(WeightsInit, Rearranged(p)) = Return(scores)

\* Three repositories that differ in documentation value and in
\* contribution, two of them with a language, scored.
C17_Witness ==
    /\ pc = "done"
    /\ Len(Repositories) = 3
    /\ Cardinality({DocValues[i] : i \in 1..3}) = 3
    /\ Cardinality({Contributions[i] : i \in 1..3}) = 3
    /\ Cardinality(DistinctLanguages) = 2

\* The order of the positions of calculate_score.
Position(p) ==
    CASE p = "documentation" -> 1
      [] p = "technical_depth" -> 2
      [] p = "activity" -> 3
      [] p = "return" -> 4
      [] p = "done" -> 5
      [] OTHER -> 0

\* C18: every invocation of calculate_score on a finite repository sequence
\* terminates and returns a ScoreBreakdown, each statement run once and in
\* order (no retry).
C18_Terminates ==
    /\ <>(pc = "done" /\ DOMAIN scores = ScoreFields)
    /\ [][Position(pc') = Position(pc) + 1]_vars

\* An invocation on the longest sequence of repositories has returned.
C18_Witness ==
    /\ pc = "done"
    /\ Len(Repositories) = Len(LanguageList) + 1
    /\ DOMAIN scores = ScoreFields
    /\ doc_score = FromInt(100)

\* ------------------------------------------------------------------------
\* Several invocations of calculate_score
\* ------------------------------------------------------------------------
\* Callers invoke calculate_score with no coordination; every caller has its
\* own frame (argument, locals, position, returned value) in calls, and all
\* of them read the one class attribute WEIGHTS.  The steps of the callers
\* interleave in every order, the orders in which one invocation ends before
\* the next begins included.

\* Number of callers.
NumCallers == 3

Callers == 1..NumCallers

\* The arguments the callers pass; the third and fourth hold the same
\* repositories in opposite orders.
CallInputs ==
    { EmptyDict,
      Profile(<< BaseRepo >>, BaseActivity),
      Profile(<< DocRepo(0, None), ComplexityRepo(50, 20) >>,
              [consistency_score |-> Rat(400, 11), total_commits |-> 0]),
      Profile(<< ComplexityRepo(50, 20), DocRepo(0, None) >>,
              [consistency_score |-> Rat(400, 11), total_commits |-> 0]),
      [repositories |-> << Restrict(BaseRepo, {"stars"}) >>] }

\* The engine frame of the single-invocation specification, not in use.
EngineIdle ==
    /\ profile_data = EmptyDict
    /\ doc_score = Unbound
    /\ tech_score = Unbound
    /\ activity_score = Unbound
    /\ scores = Unbound
    /\ pc = "idle"

EngineFrame == << profile_data, doc_score, tech_score, activity_score, scores, pc >>

InitCalls ==
    /\ EngineIdle
    /\ WEIGHTS = WeightsInit
    /\ history = NotCalled
    /\ parse = NotCalled
    /\ ServerIdle
    /\ \E inputs \in [Callers -> CallInputs] :
          calls = [c \in Callers |->
                      [profile_data   |-> inputs[c],
                       doc_score      |-> Unbound,
                       tech_score     |-> Unbound,
                       activity_score |-> Unbound,
                       scores         |-> Unbound,
                       pc             |-> "documentation"]]

CallStep_Shared(c, at, local, r, after) ==
    /\ calls[c].pc = at
    /\ calls' = [d \in Callers |->
                    IF d = c
                    THEN [calls[d] EXCEPT ![local] = r.value, !.pc = after]
                    ELSE [calls[d] EXCEPT ![local] = r.value]]
    /\ UNCHANGED << WEIGHTS, EngineFrame, OutsideScoring >>

\* The local bound by the statement at position `at`, and the position after.
CallStep(c, at, local, r, after) ==
    /\ calls[c].pc = at
    /\ calls' = IF r.raised
                THEN [calls EXCEPT ![c].pc = "raised"]
                ELSE [calls EXCEPT ![c][local] = r.value, ![c].pc = after]
    /\ UNCHANGED << WEIGHTS, EngineFrame, OutsideScoring >>

CallScoreDocumentation_Shared(c) ==
    /\ calls[c].pc = "documentation"
    /\ calls' = [d \in Callers |->
                    IF d = c
                    THEN [calls[d] EXCEPT
                            !.doc_score = _score_documentation(calls[c].profile_data).value,
                            !.pc = "technical_depth"]
                    ELSE [calls[d] EXCEPT
                            !.doc_score = _score_documentation(calls[c].profile_data).value]]
    /\ UNCHANGED << WEIGHTS, EngineFrame, OutsideScoring >>

\* doc_score = self._score_documentation(profile_data)
CallScoreDocumentation(c) ==
    CallStep(c, "documentation", "doc_score",
             _score_documentation(calls[c].profile_data), "technical_depth")

\* tech_score = self._score_technical_depth(profile_data)
CallScoreTechnicalDepth(c) ==
    CallStep(c, "technical_depth", "tech_score",
             _score_technical_depth(calls[c].profile_data), "activity")

\* activity_score = self._score_activity(profile_data)
CallScoreActivity(c) ==
    CallStep(c, "activity", "activity_score",
             _score_activity(calls[c].profile_data), "return")

CallReturnScores_Drifts(c) ==
    /\ calls[c].pc = "return"
    /\ calls' = [calls EXCEPT
                   ![c].scores = ScoreBreakdown(WEIGHTS, calls[c].doc_score,
                                                calls[c].tech_score,
                                                calls[c].activity_score),
                   ![c].pc = "done"]
    /\ WEIGHTS' = [WEIGHTS EXCEPT
                     !["activity"] = RMul(WEIGHTS["activity"], Rat(1, 2)),
                     !["documentation"] = RAdd(WEIGHTS["documentation"],
                                               RMul(WEIGHTS["activity"], Rat(1, 2)))]
    /\ UNCHANGED << EngineFrame, OutsideScoring >>

\* total_score = ...; return {...}
CallReturnScores(c) ==
    /\ calls[c].pc = "return"
    /\ calls' = [calls EXCEPT
                   ![c].scores = ScoreBreakdown(WEIGHTS, calls[c].doc_score,
                                                calls[c].tech_score,
                                                calls[c].activity_score),
                   ![c].pc = "done"]
    /\ UNCHANGED << WEIGHTS, EngineFrame, OutsideScoring >>

NextCalls ==
    \E c \in Callers :
        \/ CallScoreDocumentation(c)
        \/ CallScoreTechnicalDepth(c)
        \/ CallScoreActivity(c)
        \/ CallReturnScores(c)

SpecCalls == InitCalls /\ [][NextCalls]_vars

\* C11: two invocations of calculate_score on identical profile_data, in
\* any order and with any other invocation in between, return identical
\* output.
C11_Deterministic ==
    \A c, d \in Callers :
        (/\ calls[c].pc = "done"
         /\ calls[d].pc = "done"
         /\ calls[c].profile_data = calls[d].profile_data)
        => calls[c].scores = calls[d].scores

\* Two invocations on one input have returned, a third on another input
\* has run as well.
C11_Witness ==
    \E c, d, e \in Callers :
        /\ c # d
        /\ calls[c].pc = "done" /\ calls[d].pc = "done" /\ calls[e].pc = "done"
        /\ calls[c].profile_data = calls[d].profile_data
        /\ calls[e].profile_data # calls[c].profile_data
        /\ calls[e].scores # calls[c].scores
        /\ calls[c].scores = calls[d].scores

\* C14: the weights are documentation 0.30, technical_depth 0.40 and
\* activity 0.30, they sum to 1, and no sequence of invocations of
\* calculate_score changes them.
C14_WeightsFixed ==
    /\ DOMAIN WEIGHTS = {"documentation", "technical_depth", "activity"}
    /\ WEIGHTS["documentation"] = Rat(30, 100)
    /\ WEIGHTS["technical_depth"] = Rat(40, 100)
    /\ WEIGHTS["activity"] = Rat(30, 100)
    /\ RAdd(RAdd(WEIGHTS["documentation"], WEIGHTS["technical_depth"]),
            WEIGHTS["activity"]) = FromInt(1)

\* Every caller has returned, on inputs that are not all the same.
C14_Witness ==
    /\ \A c \in Callers : calls[c].pc = "done"
    /\ \E c, d \in Callers : calls[c].scores # calls[d].scores
    /\ WEIGHTS["technical_depth"] = Rat(40, 100)

\* A step of one caller changes the frame of no other caller and not the
\* weights.
OwnFrameOnly ==
    /\ WEIGHTS' = WEIGHTS
    /\ \A c \in Callers :
          calls'[c] # calls[c] => \A d \in Callers \ {c} : calls'[d] = calls[d]

\* C16: under any interleaving of concurrent invocations, each invocation
\* returns what it returns when run alone, and no step of one invocation
\* writes state that another invocation reads.
C16_Isolated ==
    /\ [](\A c \in Callers :
             /\ calls[c].pc # "raised"
             /\ calls[c].pc = "done" =>
                   Return(calls[c].scores)
                     = calculate_score(WeightsInit, calls[c].profile_data))
    /\ [][OwnFrameOnly]_vars

\* Two invocations on different inputs are both under way while a third,
\* on yet another input, has returned.
C16_Witness ==
    \E c, d, e \in Callers :
        /\ calls[c].pc = "technical_depth"
        /\ calls[d].pc = "return"
        /\ calls[e].pc = "done"
        /\ calls[c].profile_data # calls[d].profile_data
        /\ calls[e].profile_data \notin {calls[c].profile_data, calls[d].profile_data}
        /\ calls[c].doc_score # calls[d].doc_score

\* ------------------------------------------------------------------------
\* DataExtractionLayer._analyze_commit_history, the producer of
\* commit_activity (src/data_extraction.py)
\* ------------------------------------------------------------------------

MaxUserRepos == 2

\* commit.commit.author.date.strftime("%Y-%m")
MonthKeys == {"2026-09", "2026-10", "2026-11"}

\* self.months_history: the configured twelve months, periods shorter than
\* the months in which commits are found, and periods that are not positive.
MonthsHistoryValues == {-1, 0, 1, 2, 12}

\* What iterating repo.get_commits(...) delivers: the author months of some
\* commits, then the end of the list or an exception.
CommitLists == UNION { [1..k -> MonthKeys] : k \in 0..2 }
CommitStreams == [commits : CommitLists, raises : BOOLEAN]

\* commits_by_month[month_key] = commits_by_month.get(month_key, 0) + 1
CountCommit(commits_by_month, month_key) ==
    [k \in DOMAIN commits_by_month \cup {month_key} |->
        IF k = month_key
        THEN Get(commits_by_month, month_key, 0) + 1
        ELSE commits_by_month[k]]

\* for commit in commits: ...
RECURSIVE CommitLoop(_, _, _)
CommitLoop(commits, i, commits_by_month) ==
    IF i > Len(commits)
    THEN commits_by_month
    ELSE CommitLoop(commits, i + 1, CountCommit(commits_by_month, commits[i]))

\* (active_months / expected_months * 100) if expected_months > 0 else 0
ConsistencyScore(active_months, expected_months) ==
    IF expected_months > 0
    THEN LET q == TrueDiv(active_months, expected_months)
         IN  IF q.raised THEN q ELSE Return(RMul(q.value, FromInt(100)))
    ELSE Return(FromInt(0))

CapConsistency_Uncapped(consistency_score) == consistency_score

\* min(100, consistency_score)
CapConsistency(consistency_score) == RMin(FromInt(100), consistency_score)

\* The dictionary _analyze_commit_history returns.
CommitActivityRecord(total, active, consistency, by_month, period) ==
    [total_commits          |-> total,
     active_months          |-> active,
     consistency_score      |-> consistency,
     commits_by_month       |-> by_month,
     analysis_period_months |-> period]

\* The dictionary of the outer except clause.
FailedActivity(months_history) ==
    CommitActivityRecord(0, 0, FromInt(0), EmptyDict, months_history)

\* A call of _analyze_commit_history: the configured period, and what
\* user.get_repos() will deliver (repositories, then the end of the list or
\* an exception).
InitHistory ==
    /\ EngineIdle
    /\ WEIGHTS = WeightsInit
    /\ calls = << >>
    /\ parse = NotCalled
    /\ ServerIdle
    /\ \E m \in MonthsHistoryValues, k \in 0..MaxUserRepos, r \in BOOLEAN :
          \E repos \in [1..k -> CommitStreams] :
              history = [pc               |-> "begin",
                         months_history   |-> m,
                         repos            |-> repos,
                         repos_raises     |-> r,
                         i                |-> 0,
                         total_commits    |-> Unbound,
                         commits_by_month |-> Unbound,
                         result           |-> Unbound]

HistoryUnchanged == UNCHANGED << WEIGHTS, EngineFrame, calls, parse, Server >>

\* cutoff_date = ...; total_commits = 0; commits_by_month = {}
BeginAnalysis ==
    /\ history.pc = "begin"
    /\ history' = [history EXCEPT !.total_commits = 0,
                                  !.commits_by_month = EmptyDict,
                                  !.pc = "repos"]
    /\ HistoryUnchanged

\* One iteration of "for repo in user.get_repos()": the commits delivered are
\* counted; an exception of get_commits or of its iteration ends the
\* iteration with what was counted (except: continue).
AnalyzeRepo ==
    /\ history.pc = "repos"
    /\ history.i < Len(history.repos)
    /\ LET repo == history.repos[history.i + 1]
       IN  history' =
             [history EXCEPT
                !.i = history.i + 1,
                !.total_commits = history.total_commits + Len(repo.commits),
                !.commits_by_month =
                    CommitLoop(repo.commits, 1, history.commits_by_month)]
    /\ HistoryUnchanged

\* user.get_repos() raises: the outer except clause returns the failure record.
AnalysisFails ==
    /\ history.pc = "repos"
    /\ history.i = Len(history.repos)
    /\ history.repos_raises
    /\ history' = [history EXCEPT !.result = FailedActivity(history.months_history),
                                  !.pc = "done"]
    /\ HistoryUnchanged

\* The loop is over: the consistency metric and the returned dictionary.
ReturnActivity ==
    /\ history.pc = "repos"
    /\ history.i = Len(history.repos)
    /\ ~history.repos_raises
    /\ LET active_months     == Cardinality(DOMAIN history.commits_by_month)
           expected_months   == history.months_history
           consistency_score == ConsistencyScore(active_months, expected_months)
       IN  history' =
             [history EXCEPT
                !.result =
                    IF consistency_score.raised
                    THEN FailedActivity(history.months_history)
                    ELSE CommitActivityRecord(
                             history.total_commits, active_months,
                             CapConsistency(consistency_score.value),
                             history.commits_by_month, history.months_history),
                !.pc = "done"]
    /\ HistoryUnchanged

NextHistory ==
    \/ BeginAnalysis
    \/ AnalyzeRepo
    \/ AnalysisFails
    \/ ReturnActivity

SpecHistory == InitHistory /\ [][NextHistory]_vars

\* The months in which the commits delivered to the call were authored.
MonthsWithCommits ==
    UNION { { history.repos[j].commits[k] :
                k \in 1..Len(history.repos[j].commits) } :
            j \in 1..Len(history.repos) }

\* C19: the consistency_score _analyze_commit_history returns lies in
\* [0, 100]: it is 100 as soon as the active months reach the period, 0 when
\* months_history is not positive, and 0 when the analysis fails.
C19_ProducerConsistency ==
    history.pc = "done" =>
        LET c == history.result.consistency_score
        IN  /\ RLe(FromInt(0), c)
            /\ RLe(c, FromInt(100))
            /\ history.months_history <= 0 => c = FromInt(0)
            /\ history.repos_raises => c = FromInt(0)
            /\ ( /\ ~history.repos_raises
                 /\ history.months_history > 0
                 /\ Cardinality(MonthsWithCommits) >= history.months_history )
               => c = FromInt(100)

\* Commits in three months over a period of two months: the cap has acted.
C19_Witness ==
    /\ history.pc = "done"
    /\ ~history.repos_raises
    /\ history.months_history = 2
    /\ Cardinality(MonthsWithCommits) = 3
    /\ history.result.active_months = 3
    /\ history.result.consistency_score = FromInt(100)

\* ------------------------------------------------------------------------
\* extract_username (src/routes.py).  A string is a sequence of characters.
\* ------------------------------------------------------------------------

MaxNameLen == 3

\* None, where a string may stand.
NoString == << None >>

\* [a-zA-Z0-9_-]
UsernameClass ==
    {"a", "b", "c", "d", "e", "f", "g", "h", "i", "j", "k", "l", "m",
     "n", "o", "p", "q", "r", "s", "t", "u", "v", "w", "x", "y", "z",
     "A", "B", "C", "D", "E", "F", "G", "H", "I", "J", "K", "L", "M",
     "N", "O", "P", "Q", "R", "S", "T", "U", "V", "W", "X", "Y", "Z",
     "0", "1", "2", "3", "4", "5", "6", "7", "8", "9", "_", "-"}

\* Characters str.strip() removes.
Whitespace == {" ", "\t", "\n", "\r"}

RECURSIVE lstrip(_)
lstrip(str) ==
    IF str # << >> /\ Head(str) \in Whitespace THEN lstrip(Tail(str)) ELSE str

RECURSIVE rstrip(_)
rstrip(str) ==
    IF str # << >> /\ str[Len(str)] \in Whitespace
    THEN rstrip(SubSeq(str, 1, Len(str) - 1))
    ELSE str

strip_Omitted(str) == str

\* input_str.strip()
strip(str) == rstrip(lstrip(str))

\* The literals of the patterns.
HTTP   == << "h", "t", "t", "p" >>
COLON  == << ":", "/", "/" >>
WWW    == << "w", "w", "w", "." >>
GITHUB == << "g", "i", "t", "h", "u", "b", ".", "c", "o", "m", "/" >>

\* A pattern element takes the positions a match may have reached to the
\* positions it may reach after the element.
Lit(str, i, w) ==
    /\ i + Len(w) - 1 <= Len(str)
    /\ SubSeq(str, i, i + Len(w) - 1) = w

AfterLit(P, str, w) == { i + Len(w) : i \in { p \in P : Lit(str, p, w) } }

\* (?:w)?
AfterOpt(P, str, w) == P \cup AfterLit(P, str, w)

\* https?://
AfterScheme(P, str) ==
    AfterLit(AfterOpt(AfterLit(P, str, HTTP), str, << "s" >>), str, COLON)

\* (?:\?.*)?   ('.' matches no newline)
AfterQuery(P, str) ==
    P \cup { k \in 1..(Len(str) + 1) :
               \E p \in P : /\ Lit(str, p, << "?" >>)
                            /\ k > p
                            /\ \A j \in (p + 1)..(k - 1) : str[j] # "\n" }

\* $   (the end of the string, or just before its final newline)
AtEnd(P, str) ==
    { p \in P : \/ p = Len(str) + 1
                \/ p = Len(str) /\ str[p] = "\n" }

\* ([a-zA-Z0-9_-]+) from position g: where the group may end.
GroupEnds(str, g) ==
    { e \in (g + 1)..(Len(str) + 1) : \A j \in g..(e - 1) : str[j] \in UsernameClass }

\* What follows the group in a pattern, matched from position e:
\*   "/?(?:\?.*)?$" in the first two URL patterns,
\*   "$" in the username pattern,
\*   "" in the third URL pattern.
Rest(rest, str, e) ==
    CASE rest = "/?(?:\\?.*)?$" ->
           AtEnd(AfterQuery(AfterOpt({e}, str, << "/" >>), str), str) # {}
      [] rest = "$" -> AtEnd({e}, str) # {}
      [] rest = "" -> TRUE

\* match.group(1) of the match re.match finds, None when there is no match:
\* the group starts where the prefix ends and is the longest (greedy) run
\* after which the rest of the pattern matches.
Group(str, starts, rest) ==
    LET found == { m \in starts \X (1..(Len(str) + 1)) :
                     m[2] \in GroupEnds(str, m[1]) /\ Rest(rest, str, m[2]) }
    IN  IF found = {}
        THEN NoString
        ELSE LET m == CHOOSE m \in found : \A n \in found : n[2] <= m[2]
             IN  SubSeq(str, m[1], m[2] - 1)

\* re.match(url_patterns[k], input_str)
UrlPattern(k, str) ==
    CASE k = 1 ->
           Group(str, AfterLit(AfterOpt(AfterScheme({1}, str), str, WWW), str, GITHUB),
                 "/?(?:\\?.*)?$")
      [] k = 2 ->
           Group(str, AfterLit({1}, str, GITHUB), "/?(?:\\?.*)?$")
      [] k = 3 ->
           Group(str,
                 AfterLit(AfterOpt({1} \cup AfterScheme({1}, str), str, WWW), str, GITHUB),
                 "")

\* len(url_patterns)
NumPatterns == 3

\* re.match(r'^[a-zA-Z0-9_-]+$', input_str)
UsernamePattern(str) == Group(str, {1}, "$")

\* The group of the first URL pattern, from the k-th on, that matches.
RECURSIVE FirstUrlMatch(_, _)
FirstUrlMatch(k, str) ==
    IF k > NumPatterns
    THEN NoString
    ELSE IF UrlPattern(k, str) # NoString
         THEN UrlPattern(k, str)
         ELSE FirstUrlMatch(k + 1, str)

\* extract_username(input_str): what it returns or raises.
extract_username(input_str) ==
    IF input_str = NoString \/ input_str = << >> \/ strip(input_str) = << >>
    THEN Raise("ValueError")
    ELSE LET stripped == strip(input_str)
         IN  IF FirstUrlMatch(1, stripped) # NoString
             THEN Return(FirstUrlMatch(1, stripped))
             ELSE IF UsernamePattern(stripped) # NoString
                  THEN Return(stripped)
                  ELSE Raise("ValueError")

\* Usernames: every string of at most MaxNameLen characters over a lower-case
\* letter, an upper-case letter, a digit, '_' and '-'.
NameChars == {"a", "Z", "7", "_", "-"}
Names == UNION { [1..n -> NameChars] : n \in 1..MaxNameLen }

\* "U", "github.com/U", "http://github.com/U", "https://github.com/U"
Forms ==
    { << >>,
      GITHUB,
      HTTP \o COLON \o GITHUB,
      HTTP \o << "s" >> \o COLON \o GITHUB }

\* Surrounding whitespace.
Pads == { << >>, << " " >>, << "\n", "\t" >> }

\* Other arguments: None, "", " ", "a@b", "a b", "github.com/",
\* "github.com/a/Z", "https://www.github.com/a/?tab=7", "www.github.com/a",
\* "github.com/a@b", "https://github.com/a b", "a github.com/Z".
OtherInputs ==
    { NoString,
      << >>,
      << " " >>,
      << "a", "@", "b" >>,
      << "a", " ", "b" >>,
      GITHUB,
      GITHUB \o << "a", "/", "Z" >>,
      HTTP \o << "s" >> \o COLON \o WWW \o GITHUB
           \o << "a", "/", "?", "t", "a", "b", "=", "7" >>,
      WWW \o GITHUB \o << "a" >>,
      GITHUB \o << "a", "@", "b" >>,
      HTTP \o << "s" >> \o COLON \o GITHUB \o << "a", " ", "b" >>,
      << "a", " " >> \o GITHUB \o << "Z" >> }

\* A call extract_username(argument); username is the U the argument was
\* written from (None for the other arguments).
ParseFrame(argument, username) ==
    [pc        |-> "check",
     argument  |-> argument,
     username  |-> username,
     input_str |-> argument,
     k         |-> 1,
     result    |-> Unbound]

InitParse ==
    /\ EngineIdle
    /\ WEIGHTS = WeightsInit
    /\ calls = << >>
    /\ history = NotCalled
    /\ ServerIdle
    /\ \/ \E U \in Names, form \in Forms, l \in Pads, r \in Pads :
             parse = ParseFrame(l \o form \o U \o r, U)
       \/ \E x \in OtherInputs : parse = ParseFrame(x, NoString)

ParseUnchanged == UNCHANGED << WEIGHTS, EngineFrame, calls, history, Server >>

\* if not input_str or not input_str.strip(): raise ValueError(...)
\* input_str = input_str.strip()
CheckInput ==
    /\ parse.pc = "check"
    /\ parse' =
         IF parse.input_str = NoString \/ parse.input_str = << >>
            \/ strip(parse.input_str) = << >>
         THEN [parse EXCEPT !.result = Raise("ValueError"), !.pc = "raised"]
         ELSE [parse EXCEPT !.input_str = strip(parse.input_str),
                            !.pc = "url_patterns"]
    /\ ParseUnchanged

\* One iteration of "for pattern in url_patterns".
TryPattern ==
    /\ parse.pc = "url_patterns"
    /\ LET group == UrlPattern(parse.k, parse.input_str)
       IN  parse' =
             IF group # NoString
             THEN [parse EXCEPT !.result = Return(group), !.pc = "done"]
             ELSE IF parse.k < NumPatterns
                  THEN [parse EXCEPT !.k = parse.k + 1]
                  ELSE [parse EXCEPT !.pc = "username"]
    /\ ParseUnchanged

\* if re.match(r'^[a-zA-Z0-9_-]+$', input_str): return input_str
\* raise ValueError(...)
PlainUsername ==
    /\ parse.pc = "username"
    /\ parse' =
         IF UsernamePattern(parse.input_str) # NoString
         THEN [parse EXCEPT !.result = Return(parse.input_str), !.pc = "done"]
         ELSE [parse EXCEPT !.result = Raise("ValueError"), !.pc = "raised"]
    /\ ParseUnchanged

NextParse ==
    \/ CheckInput
    \/ TryPattern
    \/ PlainUsername

SpecParse == InitParse /\ [][NextParse]_vars

\* The four forms without whitespace, and with it.
WrittenAs(form, l, r) ==
    parse.username # NoString /\ parse.argument = l \o form \o parse.username \o r

\* C20: for every U of letters, digits, '_' and '-', extract_username
\* returns exactly U on "U", "github.com/U", "http://github.com/U" and
\* "https://github.com/U", with or without surrounding whitespace; it does
\* not raise on them.
C20_ReturnsUsername ==
    /\ (parse.pc # "idle" /\ parse.username # NoString) => parse.pc # "raised"
    /\ (parse.pc = "done" /\ parse.username # NoString) =>
           parse.result = Return(parse.username)

\* An https URL of a longest username, with whitespace on both sides, parsed.
C20_Witness ==
    /\ parse.pc = "done"
    /\ parse.username # NoString
    /\ Len(parse.username) = MaxNameLen
    /\ \E l \in Pads \ {<< >>}, r \in Pads \ {<< >>} :
          WrittenAs(HTTP \o << "s" >> \o COLON \o GITHUB, l, r)
    /\ parse.result = Return(parse.username)

\* The beginnings of a github.com URL.
UrlPrefixes ==
    { scheme \o www \o GITHUB :
        scheme \in { << >>, HTTP \o COLON, HTTP \o << "s" >> \o COLON },
        www \in { << >>, WWW } }

\* A string that consists only of letters, digits, '_' and '-'.
IsUsername(str) ==
    /\ str # NoString
    /\ Len(str) > 0
    /\ \A j \in 1..Len(str) : str[j] \in UsernameClass

\* A github.com profile URL: github.com/U for a username U, with or without
\* scheme and www, a closing '/' and a query.
IsProfileUrl(str) ==
    /\ str # NoString
    /\ \E prefix \in UrlPrefixes, e \in 1..Len(str) :
          /\ Len(prefix) < e
          /\ SubSeq(str, 1, Len(prefix)) = prefix
          /\ IsUsername(SubSeq(str, Len(prefix) + 1, e))
          /\ LET after == SubSeq(str, e + 1, Len(str))
             IN  \/ after \in { << >>, << "/" >> }
                 \/ Head(after) = "?"
                 \/ Len(after) > 1 /\ SubSeq(after, 1, 2) = << "/", "?" >>

\* C21: extract_username raises ValueError, and returns no value, on every
\* argument that is empty, whitespace-only, or neither a github.com profile
\* URL nor a string of letters, digits, '_' and '-' only.
C21_RejectsInvalid ==
    ( /\ parse.pc \in {"done", "raised"}
      /\ LET given == IF parse.argument = NoString
                      THEN NoString
                      ELSE strip(parse.argument)
         IN  ~IsProfileUrl(given) /\ ~IsUsername(given) )
    => parse.pc = "raised" /\ parse.result = Raise("ValueError")

\* ------------------------------------------------------------------------
\* AIInsightEngine (src/ai_scoring.py).  The text of a model response is a
\* sequence of tokens: the JSON punctuation, words of prose, and string
\* literals (every other token; its value is the token).
\* ------------------------------------------------------------------------

MaxTokens == 5

Punctuation == {"{", "}", "[", "]", ":", ","}
Prose == {"Sure", "."}
IsStringLiteral(token) == token \notin Punctuation \cup Prose

\* response_text.find(token): the 0-based index of the first occurrence, or -1
find(text, token) ==
    LET at == { j \in 1..Len(text) : text[j] = token }
    IN  IF at = {} THEN -1 ELSE (CHOOSE j \in at : \A k \in at : j <= k) - 1

\* response_text.rfind(token): the 0-based index of the last occurrence, or -1
rfind(text, token) ==
    LET at == { j \in 1..Len(text) : text[j] = token }
    IN  IF at = {} THEN -1 ELSE (CHOOSE j \in at : \A k \in at : j >= k) - 1

\* The outcome of parsing from position i: the value and the next position.
Parsed(value, next) == [ok |-> TRUE, value |-> value, next |-> next]
Malformed == [ok |-> FALSE, value |-> << >>, next |-> 0]

Token(text, i) == IF i <= Len(text) THEN text[i] ELSE "<end>"

\* d[key] = value
SetItem(d, key, value) ==
    [k \in DOMAIN d \cup {key} |-> IF k = key THEN value ELSE d[k]]

RECURSIVE ParseValue(_, _)
RECURSIVE ParseMembers(_, _, _)
RECURSIVE ParseElements(_, _, _)

\* value: a string literal, an object or an array
ParseValue(text, i) ==
    LET token == Token(text, i)
    IN  IF token = "{" THEN
            IF Token(text, i + 1) = "}"
            THEN Parsed(EmptyDict, i + 2)
            ELSE ParseMembers(text, i + 1, EmptyDict)
        ELSE IF token = "[" THEN
            IF Token(text, i + 1) = "]"
            THEN Parsed(<< >>, i + 2)
            ELSE ParseElements(text, i + 1, << >>)
        ELSE IF token # "<end>" /\ IsStringLiteral(token)
        THEN Parsed(token, i + 1)
        ELSE Malformed

\* string ":" value, then "," and more members, or "}"
ParseMembers(text, i, object) ==
    LET key == Token(text, i)
    IN  IF key = "<end>" \/ ~IsStringLiteral(key) \/ Token(text, i + 1) # ":"
        THEN Malformed
        ELSE LET v == ParseValue(text, i + 2)
             IN  IF ~v.ok THEN Malformed
                 ELSE IF Token(text, v.next) = ","
                 THEN ParseMembers(text, v.next + 1, SetItem(object, key, v.value))
                 ELSE IF Token(text, v.next) = "}"
                 THEN Parsed(SetItem(object, key, v.value), v.next + 1)
                 ELSE Malformed

\* value, then "," and more elements, or "]"
ParseElements(text, i, array) ==
    LET v == ParseValue(text, i)
    IN  IF ~v.ok THEN Malformed
        ELSE IF Token(text, v.next) = ","
        THEN ParseElements(text, v.next + 1, Append(array, v.value))
        ELSE IF Token(text, v.next) = "]"
        THEN Parsed(Append(array, v.value), v.next + 1)
        ELSE Malformed

\* json.loads(json_str)
json_loads(json_str) ==
    LET v == ParseValue(json_str, 1)
    IN  IF v.ok /\ v.next = Len(json_str) + 1
        THEN Return(v.value)
        ELSE Raise("JSONDecodeError")

\* AIInsightEngine._default_insights
_default_insights ==
    [developer_profile   |-> "Unable to generate",
     strong_signals      |-> << [signal |-> "Data unavailable", explanation |-> ""] >>,
     red_flags           |-> << [flag |-> "Analysis error", explanation |-> ""] >>,
     improvement_actions |-> << [action |-> "Retry analysis", impact |-> "high",
                                 explanation |-> ""] >>,
     overall_assessment  |-> "Please try again later."]

\* AIInsightEngine._parse_insights
_parse_insights(response_text) ==
    LET json_start == find(response_text, "{")
        json_end   == rfind(response_text, "}") + 1
    IN  IF json_start >= 0 /\ json_end > json_start
        THEN LET loaded == json_loads(SubSeq(response_text, json_start + 1, json_end))
             IN  IF loaded.raised THEN _default_insights ELSE loaded.value
        ELSE _default_insights

\* AIInsightEngine.generate_insights, given what self.model.generate_content
\* and response.text yield: a text, or an exception.
generate_insights(response) ==
    IF response.raised
    THEN _default_insights
    ELSE _parse_insights(response.value)

\* ------------------------------------------------------------------------
\* DataExtractionLayer.get_profile_data (src/data_extraction.py).  github is
\* what the GitHub API yields for the user: user ("found", or the exception
\* of get_user and of the user's attributes), listing (whether
\* get_repos raises in _extract_repository_data), repos (the user's
\* repositories as listed), commits (what _analyze_commit_history is
\* delivered).
\* ------------------------------------------------------------------------

\* The whole loop of _analyze_commit_history over the repositories from the
\* i-th on: the commits counted by month.
RECURSIVE RepoLoop(_, _, _)
RepoLoop(repos, i, commits_by_month) ==
    IF i > Len(repos)
    THEN commits_by_month
    ELSE RepoLoop(repos, i + 1, CommitLoop(repos[i].commits, 1, commits_by_month))

\* sum of commits_by_month.values(), which is total_commits
RECURSIVE TotalCommits(_, _)
TotalCommits(repos, i) ==
    IF i > Len(repos) THEN 0 ELSE Len(repos[i].commits) + TotalCommits(repos, i + 1)

\* _analyze_commit_history(user), as one evaluation
_analyze_commit_history(months_history, repos, repos_raises) ==
    IF repos_raises
    THEN FailedActivity(months_history)
    ELSE LET commits_by_month  == RepoLoop(repos, 1, EmptyDict)
             active_months     == Cardinality(DOMAIN commits_by_month)
             consistency_score == ConsistencyScore(active_months, months_history)
         IN  IF consistency_score.raised
             THEN FailedActivity(months_history)
             ELSE CommitActivityRecord(TotalCommits(repos, 1), active_months,
                                       CapConsistency(consistency_score.value),
                                       commits_by_month, months_history)

\* sorted(..., key=lambda r: r.stargazers_count, reverse=True): stable, the
\* repositories of equal stars keep their order.
RECURSIVE SortedByStars(_)
SortedByStars(repos) ==
    IF repos = << >>
    THEN << >>
    ELSE LET top == CHOOSE j \in 1..Len(repos) :
                       /\ \A k \in 1..Len(repos) :
                             repos[k].stargazers_count <= repos[j].stargazers_count
                       /\ \A k \in 1..(j - 1) :
                             repos[k].stargazers_count < repos[j].stargazers_count
             rest == [k \in 1..(Len(repos) - 1) |->
                         IF k < top THEN repos[k] ELSE repos[k + 1]]
         IN  << repos[top] >> \o SortedByStars(rest)

\* all_repos[:self.max_repos]
Slice(seq, n) == SubSeq(seq, 1, Min(n, Len(seq)))

\* self._extract_readme(repo): the content, "" when get_contents raises.
\* Only its length is kept.
_extract_readme(repo) == IF repo.readme_raises THEN 0 ELSE repo.readme

\* repo_info, of the fields the scores read
RepoInfo(repo) ==
    [name          |-> repo.name,
     description   |-> repo.description,
     language      |-> repo.language,
     stars         |-> repo.stargazers_count,
     forks         |-> repo.forks_count,
     readme_length |-> _extract_readme(repo)]

RECURSIVE ExtractLoop_DropsCollected(_, _, _)
ExtractLoop_DropsCollected(all_repos, i, repos_data) ==
    IF i > Len(all_repos)
    THEN repos_data
    ELSE IF all_repos[i].raises
         THEN << >>
         ELSE ExtractLoop_DropsCollected(all_repos, i + 1,
                                         Append(repos_data, RepoInfo(all_repos[i])))

\* for repo in all_repos[:self.max_repos]: ... repos_data.append(repo_info),
\* left at the first repository whose attributes raise.
RECURSIVE ExtractLoop(_, _, _)
ExtractLoop(all_repos, i, repos_data) ==
    IF i > Len(all_repos) \/ all_repos[i].raises
    THEN repos_data
    ELSE ExtractLoop(all_repos, i + 1, Append(repos_data, RepoInfo(all_repos[i])))

\* DataExtractionLayer._extract_repository_data
_extract_repository_data(max_repos, github) ==
    IF github.listing # "ok"
    THEN << >>
    ELSE ExtractLoop(Slice(SortedByStars(github.repos), max_repos), 1, << >>)

\* except GithubException: raise ValueError(...); except Exception: raise
get_profile_data(username, max_repos, months_history, github) ==
    IF github.user = "found"
    THEN Return([username        |-> username,
                 repositories    |-> _extract_repository_data(max_repos, github),
                 commit_activity |-> _analyze_commit_history(
                                         months_history, github.commits.repos,
                                         github.commits.raises)])
    ELSE IF github.user = "GithubException"
         THEN Raise("ValueError")
         ELSE Raise(github.user)

\* ------------------------------------------------------------------------
\* analyze_profile, format_analysis_response, store_analysis (src/routes.py)
\* ------------------------------------------------------------------------

MaxListed == 2

\* settings: the tokens unset, blank and set; the analysis configuration as
\* configured and cut down to one repository.
SettingsValues ==
    [github_token          : { << >>, << " " >>, << "g", "h", "p" >> },
     gemini_api_key        : { << >>, << " " >>, << "k", "e", "y" >> },
     max_repos_analyzed    : { 1, 6 },
     commit_history_months : { 12 }]

\* The username argument of a request: "a", " Z", "github.com/a", "a@b", " ".
RequestInputs ==
    { << "a" >>,
      << " ", "Z" >>,
      GITHUB \o << "a" >>,
      << "a", "@", "b" >>,
      << " " >> }

\* A repository as GitHub lists it; raises: reading its attributes raises.
ListedRepo(name, stars, forks, language, description, readme, readme_raises, raises) ==
    [name             |-> name,
     stargazers_count |-> stars,
     forks_count      |-> forks,
     language         |-> language,
     description      |-> description,
     readme           |-> readme,
     readme_raises    |-> readme_raises,
     raises           |-> raises]

ListedRepos ==
    { ListedRepo("cli", 120, 30, "Go", "A command line tool", 1500, FALSE, FALSE),
      ListedRepo("lib", 120, 5, "Python", None, 600, FALSE, FALSE),
      ListedRepo("notes", 0, 0, None, None, 0, TRUE, FALSE),
      ListedRepo("gone", 50, 0, "Go", None, 0, FALSE, TRUE) }

\* What _analyze_commit_history is delivered: a failure, nothing, commits in
\* two months.
CommitWorlds ==
    { [repos |-> << >>, raises |-> TRUE],
      [repos |-> << >>, raises |-> FALSE],
      [repos |-> << [commits |-> << "2026-10", "2026-11" >>, raises |-> FALSE] >>,
       raises |-> FALSE] }

\* What the GitHub API yields.
GithubWorld(user, listing, repos, commits) ==
    [user |-> user, listing |-> listing, repos |-> repos, commits |-> commits]

GithubWorlds ==
    { GithubWorld(user, "ok", << >>, [repos |-> << >>, raises |-> FALSE]) :
        user \in {"GithubException", "ConnectionError"} }
    \cup
    UNION { { GithubWorld("found", listing, repos, commits) :
                listing \in {"ok", "GithubException"},
                repos \in [1..n -> ListedRepos],
                commits \in CommitWorlds } :
            n \in 0..MaxListed }

\* Texts of the model: prose only; an object with all the fields asked for;
\* the empty object; an object whose strong signal has no explanation.
ProseText == << "Sure", "." >>

FullText ==
    << "Sure", "{",
       "developer_profile", ":", "Backend Engineer", ",",
       "strong_signals", ":",
           "[", "{", "signal", ":", "Tests", ",", "explanation", ":", "CI", "}", "]", ",",
       "red_flags", ":", "[", "]", ",",
       "improvement_actions", ":",
           "[", "{", "action", ":", "Docs", ",", "impact", ":", "high", ",",
                     "explanation", ":", "Readme", "}", "]", ",",
       "overall_assessment", ":", "Hire",
       "}", "." >>

EmptyObjectText == << "{", "}" >>

PartialText ==
    << "{", "strong_signals", ":", "[", "{", "signal", ":", "Tests", "}", "]", "}" >>

\* What self.model.generate_content(prompt) and response.text yield.
ModelResponses ==
    { Raise("Exception"),
      Return(ProseText),
      Return(FullText),
      Return(EmptyObjectText),
      Return(PartialText) }

\* The insights analyze_profile uses when no Gemini key is configured.
UnconfiguredInsights ==
    [developer_profile   |-> "AI insights unavailable - API key not configured",
     strong_signals      |-> << >>,
     red_flags           |-> << >>,
     improvement_actions |-> << >>,
     overall_assessment  |-> "Unable to generate AI assessment at this time"]

\* The fields the response models require (src/schemas.py).
StrongSignalFields == {"signal", "explanation"}
RedFlagFields == {"flag", "explanation"}
ImprovementActionFields == {"action", "impact", "explanation"}

\* [Model(**entry) for entry in entries]: a pydantic ValidationError, which is
\* a ValueError, when an entry lacks a required field.
Validates(entries, fields) ==
    \A j \in 1..Len(entries) : fields \subseteq DOMAIN entries[j]

\* AIInsights(...) of format_analysis_response
AIInsightsResponse(ai_insights) ==
    [developer_profile   |-> Get(ai_insights, "developer_profile", ""),
     strong_signals      |-> Get(ai_insights, "strong_signals", << >>),
     red_flags           |-> Get(ai_insights, "red_flags", << >>),
     improvement_actions |-> Get(ai_insights, "improvement_actions", << >>),
     overall_assessment  |-> Get(ai_insights, "overall_assessment", "")]

format_analysis_response(profile, scored, ai_insights) ==
    LET insights == AIInsightsResponse(ai_insights)
    IN  IF /\ Validates(insights.strong_signals, StrongSignalFields)
           /\ Validates(insights.red_flags, RedFlagFields)
           /\ Validates(insights.improvement_actions, ImprovementActionFields)
        THEN Return([username        |-> profile.username,
                     scores          |-> Restrict(scored, DOMAIN scored \ {"score_breakdown"}),
                     repositories    |-> profile.repositories,
                     commit_activity |-> profile.commit_activity,
                     ai_insights     |-> insights])
        ELSE Raise("ValidationError")

\* The exceptions that are ValueErrors.
ValueErrors == {"ValueError", "ValidationError", "JSONDecodeError"}

\* A row of profile_analyses.
Row(id, username, scored) ==
    [id                    |-> id,
     username              |-> username,
     total_score           |-> scored.total_score,
     documentation_score   |-> scored.documentation_score,
     technical_depth_score |-> scored.technical_depth_score,
     activity_score        |-> scored.activity_score]

\* The next value of the primary key.
NextId(rows) ==
    IF rows = {} THEN 1 ELSE 1 + (CHOOSE n \in { r.id : r \in rows } :
                                     \A r \in rows : r.id <= n)

\* store_analysis(db, profile, scored, ai_insights), when nothing else
\* writes to the table meanwhile: the row of the username is updated, or a
\* row is added; when the commit fails the session is rolled back.
store_analysis(rows, profile, scored, commits) ==
    LET existing == { r \in rows : r.username = profile.username }
    IN  IF ~commits
        THEN rows
        ELSE IF existing # {}
             THEN LET first == CHOOSE r \in existing : \A q \in existing : r.id <= q.id
                  IN  (rows \ {first}) \cup {Row(first.id, first.username, scored)}
             ELSE rows \cup {Row(NextId(rows), profile.username, scored)}

\* The scores of an earlier analysis.
StoredScores ==
    [total_score           |-> FromInt(10),
     documentation_score   |-> FromInt(10),
     technical_depth_score |-> FromInt(10),
     activity_score        |-> FromInt(10)]

\* A request GET /api/analyze?username=..., with the table empty or holding
\* an earlier analysis of "a".
InitAnalyze ==
    /\ EngineIdle
    /\ WEIGHTS = WeightsInit
    /\ calls = << >>
    /\ history = NotCalled
    /\ parse = NotCalled
    /\ insight = NotCalled
    /\ board = NotCalled
    /\ sessions = << >>
    /\ table \in { {}, {Row(1, << "a" >>, StoredScores)} }
    /\ \E username \in RequestInputs, settings \in SettingsValues :
          request = [pc             |-> "extract",
                     username       |-> username,
                     settings       |-> settings,
                     clean_username |-> Unbound,
                     github         |-> Unbound,
                     profile_data   |-> Unbound,
                     scores         |-> Unbound,
                     ai_insights    |-> Unbound,
                     response       |-> Unbound,
                     status_code    |-> 0]

AnalyzeUnchanged == UNCHANGED << WEIGHTS, EngineFrame, calls, history, parse, insight, board, sessions >>

\* The except clauses of analyze_profile: an HTTPException is raised again,
\* a ValueError becomes 404, any other exception 500.
StatusOf(exception) == IF exception \in ValueErrors THEN 404 ELSE 500

Responded(status_code) == [request EXCEPT !.status_code = status_code, !.pc = "responded"]

\* clean_username = extract_username(username), HTTPException(400) on ValueError
ExtractUsername ==
    /\ request.pc = "extract"
    /\ LET r == extract_username(request.username)
       IN  request' =
             IF r.raised
             THEN IF r.value = "ValueError" THEN Responded(400) ELSE Responded(StatusOf(r.value))
             ELSE [request EXCEPT !.clean_username = r.value, !.pc = "validate"]
    /\ UNCHANGED table
    /\ AnalyzeUnchanged

\* Validate API keys: HTTPException(500) when the GitHub token is not set.
ValidateKeys ==
    /\ request.pc = "validate"
    /\ request' =
         IF request.settings.github_token = << >>
            \/ strip(request.settings.github_token) = << >>
         THEN Responded(500)
         ELSE [request EXCEPT !.pc = "extract_data"]
    /\ UNCHANGED table
    /\ AnalyzeUnchanged

\* profile_data = data_layer.get_profile_data(clean_username)
GetProfileData ==
    /\ request.pc = "extract_data"
    /\ \E github \in GithubWorlds :
          LET r == get_profile_data(request.clean_username,
                                    request.settings.max_repos_analyzed,
                                    request.settings.commit_history_months, github)
          IN  request' =
                IF r.raised
                THEN [Responded(StatusOf(r.value)) EXCEPT !.github = github]
                ELSE [request EXCEPT !.github = github, !.profile_data = r.value,
                                     !.pc = "score"]
    /\ UNCHANGED table
    /\ AnalyzeUnchanged

\* scores = scoring_engine.calculate_score(profile_data)
CalculateScore ==
    /\ request.pc = "score"
    /\ LET r == calculate_score(WeightsInit, request.profile_data)
       IN  request' =
             IF r.raised
             THEN Responded(StatusOf(r.value))
             ELSE [request EXCEPT !.scores = r.value, !.pc = "insights"]
    /\ UNCHANGED table
    /\ AnalyzeUnchanged

\* ai_insights = ai_engine.generate_insights(profile_data, scores) when a
\* Gemini key is configured, else the insights with empty lists.
GenerateInsights ==
    /\ request.pc = "insights"
    /\ IF request.settings.gemini_api_key # << >>
       THEN \E response \in ModelResponses :
               request' = [request EXCEPT !.ai_insights = generate_insights(response),
                                          !.pc = "format"]
       ELSE request' = [request EXCEPT !.ai_insights = UnconfiguredInsights,
                                       !.pc = "format"]
    /\ UNCHANGED table
    /\ AnalyzeUnchanged

FormatResponse_StoresFirst ==
    /\ request.pc = "format"
    /\ LET r == format_analysis_response(request.profile_data, request.scores,
                                         request.ai_insights)
       IN  request' =
             IF r.raised
             THEN Responded(StatusOf(r.value))
             ELSE [request EXCEPT !.response = r.value, !.pc = "store"]
    /\ table' = store_analysis(table, request.profile_data, request.scores, TRUE)
    /\ AnalyzeUnchanged

\* response = format_analysis_response(profile_data, scores, ai_insights)
FormatResponse ==
    /\ request.pc = "format"
    /\ LET r == format_analysis_response(request.profile_data, request.scores,
                                         request.ai_insights)
       IN  request' =
             IF r.raised
             THEN Responded(StatusOf(r.value))
             ELSE [request EXCEPT !.response = r.value, !.pc = "store"]
    /\ UNCHANGED table
    /\ AnalyzeUnchanged

\* store_analysis(db, profile_data, scores, ai_insights)
StoreAnalysis ==
    /\ request.pc = "store"
    /\ \E commits \in BOOLEAN :
          table' = store_analysis(table, request.profile_data, request.scores, commits)
    /\ request' = [request EXCEPT !.pc = "return"]
    /\ AnalyzeUnchanged

\* return response
ReturnResponse ==
    /\ request.pc = "return"
    /\ request' = Responded(200)
    /\ UNCHANGED table
    /\ AnalyzeUnchanged

NextAnalyze ==
    \/ ExtractUsername
    \/ ValidateKeys
    \/ GetProfileData
    \/ CalculateScore
    \/ GenerateInsights
    \/ FormatResponse
    \/ StoreAnalysis
    \/ ReturnResponse

SpecAnalyze == InitAnalyze /\ [][NextAnalyze]_vars

\* Whether a local of the request has been bound.
Bound(local) == DOMAIN local # {}

\* The GitHub token is missing or blank.
TokenBlank ==
    \/ request.settings.github_token = << >>
    \/ strip(request.settings.github_token) = << >>

\* get_profile_data was called and raised ValueError: the profile cannot be
\* fetched.
ProfileNotFetched ==
    /\ Bound(request.github)
    /\ request.github.user = "GithubException"

\* C22: analyze_profile answers 400 to an input extract_username rejects,
\* 500 to a missing or blank GitHub token, 404 to a ValueError of profile
\* extraction, and 500 to any other exception (so 404 to nothing else).
C22_StatusMapping ==
    request.pc = "responded" =>
        LET rejected == extract_username(request.username).raised
        IN  /\ rejected => request.status_code = 400
            /\ (~rejected /\ TokenBlank) => request.status_code = 500
            /\ (~rejected /\ ~TokenBlank /\ ProfileNotFetched)
                  => request.status_code = 404
            /\ (~rejected /\ ~TokenBlank /\ ~ProfileNotFetched)
                  => request.status_code \in {200, 500}

\* C23: every 200 response of /api/analyze carries ai_insights with at least
\* one strong signal and at least one improvement action.
C23_InsightsPresent ==
    (request.pc = "responded" /\ request.status_code = 200) =>
        /\ Len(request.response.ai_insights.strong_signals) >= 1
        /\ Len(request.response.ai_insights.improvement_actions) >= 1

\* ------------------------------------------------------------------------
\* A call of AIInsightEngine.generate_insights (src/ai_scoring.py)
\* ------------------------------------------------------------------------

\* Every text of at most MaxTokens tokens over the braces, ':', ',', a string
\* literal and a word of prose.
TextTokens == {"{", "}", ":", ",", "signal", "Sure"}
ShortTexts == UNION { [1..n -> TextTokens] : n \in 0..MaxTokens }

\* An object in an array in an object, cut short, and two objects.
NestedText   == << "{", "red_flags", ":", "[", "{", "flag", ":", "Forks", "}", "]", "}" >>
CutShortText == << "{", "red_flags", ":", "[", "{", "flag", ":", "Forks", "}" >>
TwoObjectsText == << "{", "}", "Sure", "{", "}" >>

InitInsights ==
    /\ EngineIdle
    /\ WEIGHTS = WeightsInit
    /\ calls = << >>
    /\ history = NotCalled
    /\ parse = NotCalled
    /\ request = NotCalled
    /\ table = {}
    /\ board = NotCalled
    /\ sessions = << >>
    /\ \/ \E response \in ModelResponses :
             insight = [pc |-> "generate", response |-> response, result |-> Unbound]
       \/ \E text \in ShortTexts \cup {NestedText, CutShortText, TwoObjectsText} :
             insight = [pc |-> "generate", response |-> Return(text), result |-> Unbound]

InsightsUnchanged ==
    UNCHANGED << WEIGHTS, EngineFrame, calls, history, parse, request, table, board, sessions >>

CallModel_Propagates ==
    /\ insight.pc = "generate"
    /\ insight' =
         IF insight.response.raised
         THEN [insight EXCEPT !.result = insight.response, !.pc = "raised"]
         ELSE [insight EXCEPT !.pc = "parse"]
    /\ InsightsUnchanged

\* summary, prompt, response = self.model.generate_content(prompt); an
\* exception is caught and the default insights are returned.
CallModel ==
    /\ insight.pc = "generate"
    /\ insight' =
         IF insight.response.raised
         THEN [insight EXCEPT !.result = _default_insights, !.pc = "done"]
         ELSE [insight EXCEPT !.pc = "parse"]
    /\ InsightsUnchanged

\* insights = self._parse_insights(response.text); return insights
ParseInsights ==
    /\ insight.pc = "parse"
    /\ insight' = [insight EXCEPT !.result = _parse_insights(insight.response.value),
                                  !.pc = "done"]
    /\ InsightsUnchanged

NextInsights ==
    \/ CallModel
    \/ ParseInsights

SpecInsights == InitInsights /\ [][NextInsights]_vars

\* Some stretch of the text that starts with "{" is a JSON object.
ContainsObject(text) ==
    \E i \in 1..Len(text) : \E j \in i..Len(text) :
        /\ text[i] = "{"
        /\ ~json_loads(SubSeq(text, i, j)).raised

\* C24: generate_insights never raises, and when the model call fails or the
\* response contains no parsable JSON object it returns the fixed default
\* insights, which hold one strong signal, one red flag and one improvement
\* action.
C24_DefaultInsights ==
    /\ insight.pc \in {"idle", "generate", "parse", "done"}
    /\ Len(_default_insights.strong_signals) = 1
    /\ Len(_default_insights.red_flags) = 1
    /\ Len(_default_insights.improvement_actions) = 1
    /\ (/\ insight.pc = "done"
        /\ insight.response.raised \/ ~ContainsObject(insight.response.value))
          => insight.result = _default_insights

\* json.loads raised on the text between the first "{" and the last "}".
C24_Witness ==
    /\ insight.pc = "done"
    /\ ~insight.response.raised
    /\ ~ContainsObject(insight.response.value)
    /\ find(insight.response.value, "{") >= 0
    /\ rfind(insight.response.value, "}") > find(insight.response.value, "{")
    /\ insight.result = _default_insights

\* ------------------------------------------------------------------------
\* Degraded profile data
\* ------------------------------------------------------------------------

\* The repositories the loop of _extract_repository_data is to visit.
Visited ==
    IF request.github.listing = "ok"
    THEN Slice(SortedByStars(request.github.repos), request.settings.max_repos_analyzed)
    ELSE << >>

\* How many of them come before the first whose attributes raise.
Collected ==
    IF \E i \in 1..Len(Visited) : Visited[i].raises
    THEN (CHOOSE i \in 1..Len(Visited) :
            /\ Visited[i].raises
            /\ \A j \in 1..(i - 1) : ~Visited[j].raises) - 1
    ELSE Len(Visited)

UserFetched ==
    /\ Bound(request.github)
    /\ request.github.user = "found"

\* C25: once the user is fetched, get_profile_data does not fail: a failure
\* while listing repositories leaves the repositories collected so far, a
\* failure in the commit history leaves total_commits 0 and
\* consistency_score 0, and calculate_score returns scores for that data.
C25_DegradedData ==
    UserFetched =>
        /\ Bound(request.profile_data)
        /\ Len(request.profile_data.repositories) = Collected
        /\ \A i \in 1..Collected :
              request.profile_data.repositories[i].name = Visited[i].name
        /\ request.github.commits.raises =>
              /\ request.profile_data.commit_activity.total_commits = 0
              /\ request.profile_data.commit_activity.consistency_score = FromInt(0)
        /\ request.pc # "score" => Bound(request.scores)

\* One repository was collected before the listing failed, the commit
\* history failed too, and the scores were computed.
C25_Witness ==
    /\ UserFetched
    /\ Len(Visited) = 2
    /\ Collected = 1
    /\ request.github.commits.raises
    /\ Len(request.profile_data.repositories) = 1
    /\ Bound(request.scores)

\* ------------------------------------------------------------------------
\* get_leaderboard (src/routes.py)
\* ------------------------------------------------------------------------

MaxRows == 3

\* limit is an int of the query string, and FastAPI accepts any.
Limits == {-1, 0, 1, 2, 10}

\* settings.database_url names SQLite unless configured otherwise.
Databases == {"sqlite", "postgresql"}

BoardTotals == {0, 50, 100}

ScoredAs(total) == [StoredScores EXCEPT !.total_score = FromInt(total)]

\* The i-th username stored: "a", "aa", ...
UserOf(i) == [j \in 1..i |-> "a"]

\* Tables of up to MaxRows analyses, one per username.
Tables ==
    UNION { { { Row(i, UserOf(i), ScoredAs(totals[i])) : i \in 1..n } :
                totals \in [1..n -> BoardTotals] } :
            n \in 0..MaxRows }

\* ORDER BY total_score DESC: the rows in every order the database may
\* deliver them, rows of equal total_score in any order.
OrderedByTotal(rows) ==
    { ordered \in [1..Cardinality(rows) -> rows] :
        /\ \A i, j \in 1..Cardinality(rows) : i # j => ordered[i] # ordered[j]
        /\ \A i, j \in 1..Cardinality(rows) :
              i < j => RLe(ordered[j].total_score, ordered[i].total_score) }

\* LIMIT n: SQLite reads a negative n as no limit, PostgreSQL refuses it.
LimitedTo(ordered, limit, database) ==
    IF limit >= 0
    THEN Return(Slice(ordered, limit))
    ELSE IF database = "sqlite"
         THEN Return(ordered)
         ELSE Raise("DataError")

InitBoard ==
    /\ EngineIdle
    /\ WEIGHTS = WeightsInit
    /\ calls = << >>
    /\ history = NotCalled
    /\ parse = NotCalled
    /\ request = NotCalled
    /\ insight = NotCalled
    /\ sessions = << >>
    /\ table \in Tables
    /\ \E limit \in Limits, database \in Databases :
          board = [pc |-> "query", limit |-> limit, database |-> database,
                   analyses |-> Unbound, result |-> Unbound, status_code |-> 0]

BoardUnchanged ==
    UNCHANGED << WEIGHTS, EngineFrame, calls, history, parse, request, insight, sessions, table >>

\* analyses = db.query(ProfileAnalysis).order_by(ProfileAnalysis.total_score
\* .desc()).limit(limit).all(); an exception is not handled and answers 500.
QueryAnalyses ==
    /\ board.pc = "query"
    /\ \E ordered \in OrderedByTotal(table) :
          LET r == LimitedTo(ordered, board.limit, board.database)
          IN  board' =
                IF r.raised
                THEN [board EXCEPT !.status_code = 500, !.pc = "raised"]
                ELSE [board EXCEPT !.analyses = r.value, !.pc = "rank"]
    /\ BoardUnchanged

\* return [{"rank": idx + 1, "username": a.username, "score": a.total_score,
\* ...} for idx, a in enumerate(analyses)]
RankEntries ==
    /\ board.pc = "rank"
    /\ board' = [board EXCEPT
                   !.result = [k \in 1..Len(board.analyses) |->
                                 [rank     |-> (k - 1) + 1,
                                  username |-> board.analyses[k].username,
                                  score    |-> board.analyses[k].total_score]],
                   !.status_code = 200,
                   !.pc = "done"]
    /\ BoardUnchanged

NextBoard ==
    \/ QueryAnalyses
    \/ RankEntries

SpecBoard == InitBoard /\ [][NextBoard]_vars

\* C26: get_leaderboard returns at most limit entries, ranked 1, 2, ..., n
\* without gaps, in non-increasing order of the stored total_score, each
\* entry taken from a distinct stored analysis.
C26_Leaderboard ==
    board.pc = "done" =>
        /\ Len(board.result) <= board.limit
        /\ \A k \in 1..Len(board.result) : board.result[k].rank = k
        /\ \A k \in 1..(Len(board.result) - 1) :
              RLe(board.result[k + 1].score, board.result[k].score)
        /\ \A k \in 1..Len(board.result) :
              \E row \in table : /\ row.username = board.result[k].username
                                 /\ row.total_score = board.result[k].score
        /\ \A k, m \in 1..Len(board.result) :
              k # m => board.result[k].username # board.result[m].username

\* ------------------------------------------------------------------------
\* store_analysis, step by step, in requests that run side by side
\* (src/routes.py; each request has a Session of its own, src/database.py)
\* ------------------------------------------------------------------------

NumRequests == 2

StoreNames == { << "a" >>, << "b" >> }

Uniform(score) == [field \in DOMAIN StoredScores |-> FromInt(score)]

\* Scores that differ from the stored ones in one column, and in all.
ScoreChoices == { StoredScores, ScoredAs(50), Uniform(50) }

ScoreColumns == DOMAIN StoredScores

InitStore ==
    /\ EngineIdle
    /\ WEIGHTS = WeightsInit
    /\ calls = << >>
    /\ history = NotCalled
    /\ parse = NotCalled
    /\ request = NotCalled
    /\ insight = NotCalled
    /\ board = NotCalled
    /\ table \in { {}, {Row(1, << "a" >>, StoredScores)} }
    /\ sessions \in [1..NumRequests ->
                       { [pc |-> "query", username |-> username, scores |-> scored,
                          existing |-> Unbound, pending |-> None, e |-> None,
                          status_code |-> 0] :
                         username \in StoreNames, scored \in ScoreChoices }]

StoreUnchanged ==
    UNCHANGED << WEIGHTS, EngineFrame, calls, history, parse, request, insight, board >>

\* existing = db.query(ProfileAnalysis).filter(ProfileAnalysis.username ==
\* profile_data["username"]).first()
QueryExisting(s) ==
    /\ sessions[s].pc = "query"
    /\ LET found == { row \in table : row.username = sessions[s].username }
       IN  sessions' =
             [sessions EXCEPT ![s].existing =
                                 IF found = {}
                                 THEN Unbound
                                 ELSE CHOOSE row \in found :
                                        \A other \in found : row.id <= other.id,
                              ![s].pc = "write"]
    /\ UNCHANGED table
    /\ StoreUnchanged

\* if existing: existing.total_score = ... else: db.add(ProfileAnalysis(...));
\* the Session holds the change until it is flushed.
WriteRow(s) ==
    /\ sessions[s].pc = "write"
    /\ sessions' =
         [sessions EXCEPT ![s].pending =
                             IF Bound(sessions[s].existing) THEN "update" ELSE "insert",
                          ![s].pc = "commit"]
    /\ UNCHANGED table
    /\ StoreUnchanged

UpdateRow_LeavesTotal(current, loaded, scored) ==
    [column \in DOMAIN current |->
        IF column \in ScoreColumns \ {"total_score"} /\ scored[column] # loaded[column]
        THEN scored[column]
        ELSE current[column]]

\* UPDATE profile_analyses SET ... WHERE id = ?: the Session writes the
\* columns whose value differs from the one it loaded.
UpdateRow(current, loaded, scored) ==
    [column \in DOMAIN current |->
        IF column \in ScoreColumns /\ scored[column] # loaded[column]
        THEN scored[column]
        ELSE current[column]]

flush_NoUniqueIndex(rows, frame) ==
    IF frame.pending = "insert"
    THEN Return(rows \cup {Row(NextId(rows), frame.username, frame.scores)})
    ELSE LET current == CHOOSE row \in rows : row.id = frame.existing.id
         IN  Return((rows \ {current})
                      \cup {UpdateRow(current, frame.existing, frame.scores)})

\* The flush of db.commit(): the INSERT fails on the unique index of
\* username when a row of that username is there.
flush(rows, frame) ==
    IF frame.pending = "insert"
    THEN IF \E row \in rows : row.username = frame.username
         THEN Raise("IntegrityError")
         ELSE Return(rows \cup {Row(NextId(rows), frame.username, frame.scores)})
    ELSE LET current == CHOOSE row \in rows : row.id = frame.existing.id
         IN  Return((rows \ {current})
                      \cup {UpdateRow(current, frame.existing, frame.scores)})

\* db.commit(), which may also fail for a reason of the database's own.
Commit(s) ==
    /\ sessions[s].pc = "commit"
    /\ \E commits \in BOOLEAN :
          LET flushed == IF commits THEN flush(table, sessions[s])
                                    ELSE Raise("OperationalError")
          IN  IF flushed.raised
              THEN /\ sessions' = [sessions EXCEPT ![s].e = flushed.value,
                                                   ![s].pc = "rollback"]
                   /\ UNCHANGED table
              ELSE /\ sessions' = [sessions EXCEPT ![s].pending = None,
                                                   ![s].pc = "return"]
                   /\ table' = flushed.value
    /\ StoreUnchanged

\* except Exception as e: logger.error(...); db.rollback()
Rollback(s) ==
    /\ sessions[s].pc = "rollback"
    /\ sessions' = [sessions EXCEPT ![s].pending = None, ![s].pc = "return"]
    /\ UNCHANGED table
    /\ StoreUnchanged

\* analyze_profile: return response
Respond(s) ==
    /\ sessions[s].pc = "return"
    /\ sessions' = [sessions EXCEPT ![s].status_code = 200, ![s].pc = "responded"]
    /\ UNCHANGED table
    /\ StoreUnchanged

NextStore ==
    \E s \in 1..NumRequests :
        \/ QueryExisting(s)
        \/ WriteRow(s)
        \/ Commit(s)
        \/ Rollback(s)
        \/ Respond(s)

SpecStore == InitStore /\ [][NextStore]_vars

OneRowPerUsername ==
    \A row, other \in table : row.username = other.username => row = other

\* C27: after any interleaving of analyze requests, also of requests for
\* the same username that both found no row, profile_analyses holds at most
\* one row per username; a store whose commit fails is rolled back, leaving
\* the table as it is, and its request still returns 200.
C27_OneRowPerUsername ==
    /\ [] OneRowPerUsername
    /\ [] (\A s \in DOMAIN sessions :
             sessions[s].pc = "responded" =>
                 /\ sessions[s].status_code = 200
                 /\ sessions[s].pending = None)
    /\ [][\A s \in DOMAIN sessions :
             (sessions[s].e # None /\ sessions'[s] # sessions[s]) =>
                 /\ table' = table
                 /\ sessions'[s].pending = None
                 /\ \/ sessions[s].pc = "rollback" /\ sessions'[s].pc = "return"
                    \/ sessions[s].pc = "return" /\ sessions'[s].pc = "responded"]_vars

\* Two requests for one new username both found no row; one stored it, the
\* other lost on the unique index, and both answered 200.
C27_Witness ==
    /\ \A s \in DOMAIN sessions :
          /\ sessions[s].pc = "responded"
          /\ sessions[s].status_code = 200
          /\ sessions[s].username = << "b" >>
          /\ ~Bound(sessions[s].existing)
    /\ \E s \in DOMAIN sessions : sessions[s].e = "IntegrityError"
    /\ Cardinality({ row \in table : row.username = << "b" >> }) = 1

\* The rows stored for a username.
RowsOf(rows, username) == { row \in rows : row.username = username }

\* Request s commits in this step, and no other request has written the row
\* of its username since s looked for it.
CommitsInSequence(s) ==
    /\ sessions[s].pc = "commit"
    /\ sessions'[s].pc = "return"
    /\ sessions'[s].e = None
    /\ Bound(sessions[s].existing) => sessions[s].existing \in table

\* C28: when a store_analysis call that follows the earlier calls for its
\* username succeeds, the one row of that username holds the four scores
\* passed to this call: a re-analysis overwrites the row, under the id it
\* had, and adds none.
C28_LatestScoresStored ==
    [][\A s \in DOMAIN sessions :
          CommitsInSequence(s) =>
              /\ \E row \in table' :
                    /\ RowsOf(table', sessions[s].username) = {row}
                    /\ \A column \in ScoreColumns : row[column] = sessions[s].scores[column]
                    /\ Bound(sessions[s].existing) => row.id = sessions[s].existing.id
              /\ Bound(sessions[s].existing) => Cardinality(table') = Cardinality(table)
              /\ \A other \in table : other.username # sessions[s].username => other \in table'
      ]_vars

\* A second call for a stored username changed every score of its row.
C28_Witness ==
    /\ \E s \in DOMAIN sessions :
          /\ sessions[s].pc \in {"return", "responded"}
          /\ sessions[s].e = None
          /\ Bound(sessions[s].existing)
          /\ sessions[s].scores = Uniform(50)
          /\ sessions[s].existing.total_score # FromInt(50)
    /\ table = { Row(1, << "a" >>, Uniform(50)) }

\* C29: in analyze_profile the store step comes last: the table changes only
\* in the step that follows username extraction, token validation, profile
\* extraction, scoring, insight generation and response formatting, all
\* succeeded; a request that fails does so before that step and writes or
\* modifies no row.
C29_StoreComesLast ==
    /\ [][table' # table =>
            /\ request.pc = "store"
            /\ request'.pc = "return"
            /\ Bound(request.clean_username)
            /\ ~TokenBlank
            /\ Bound(request.profile_data)
            /\ Bound(request.scores)
            /\ Bound(request.response)]_vars
    /\ [][(request'.pc = "responded" /\ request'.status_code # 200) =>
            /\ table' = table
            /\ request.pc \in {"extract", "validate", "extract_data", "score",
                               "insights", "format"}
            /\ ~Bound(request.response)]_vars

\* A request answered 200 added the row of its username to the stored one.
C29_Witness ==
    /\ request.pc = "responded"
    /\ request.status_code = 200
    /\ Cardinality(table) = 2
    /\ \E row \in table :
          /\ row.username = request.clean_username
          /\ row.total_score = request.scores.total_score

\* ------------------------------------------------------------------------
\* The range of the complexity component
\* ------------------------------------------------------------------------

\* complexity_score // max(1, len(repos)), before min(100, ...).
UncappedComplexity ==
    FloorDiv(ComplexityLoop(Repositories, 1, 0), ComplexityDivisor(Repositories))

\* C30: the complexity component is at most 50, a repository contributing
\* at most 30 + 20, so that min(100, ...) does not bind and the technical
\* depth score is at most 70 = 0.4 * 100 + 0.6 * 50; with at least one
\* repository the complexity component is at least 5.
C30_ComplexityRange ==
    TechBound =>
        LET complexity == ComplexityScore(Repositories)
        IN  /\ ~complexity.raised
            /\ \A i \in 1..Len(Repositories) :
                  StarPoints(Get(Repositories[i], "stars", 0))
                    + ForkPoints(Get(Repositories[i], "forks", 0)) <= 30 + 20
            /\ RLe(complexity.value, FromInt(50))
            /\ complexity.value = UncappedComplexity.value
            /\ RLe(tech_score, FromInt(70))
            /\ Len(Repositories) >= 1 => RLe(FromInt(5), complexity.value)

\* Five languages and every repository contributing 50: the score is 70.
C30_Witness ==
    /\ TechBound
    /\ Len(Repositories) >= 5
    /\ ComplexityScore(Repositories).value = FromInt(50)
    /\ tech_score = FromInt(70)

=============================================================================
